---------------------------- MODULE Spec2Model ----------------------------
(***************************************************************************)
(* Model of the pico_c_lora firmware: the interrupt-fed UART ring buffer   *)
(* and line reassembler (lora.c), the cancellable multi-motor stepping     *)
(* engine (stepper.c) and the receiver's command dispatch and main loop    *)
(* (run.c).                                                                *)
(*                                                                         *)
(* Three specifications share the variables:                               *)
(*   SpecEngine  the stepping engine driven through its public functions,  *)
(*               with stepper_set_interrupt able to run at any point of a  *)
(*               stepping call;                                            *)
(*   SpecRing    the ring buffer driven by put / get / init;               *)
(*   Spec        the composed receiver: UART interrupt handler, main loop, *)
(*               message handler, acknowledgment exchange.                 *)
(***************************************************************************)
EXTENDS Integers, Sequences, FiniteSets, TLC

(***************************************************************************)
(* Bounds of the model.                                                    *)
(***************************************************************************)
\* Number of motors of the model (run.c: NUM_STEPPERS is 4).
NumMotors == 2
\* Largest per-step delay given to stepper_init, in sleep_ms units.
MaxDelay == 2
\* Largest angle, in whole degrees, passed to a rotate call.
MaxDegrees == 1
\* Number of motor functions called in one behaviour of SpecEngine (the flag
\* functions are not counted).
MaxCalls == 2
\* stepper.h is not among the sources; the model takes a value for which the
\* receiver's 1-degree increment (run.c:83) is two steps.
STEPS_PER_REVOLUTION == 720

NULL == 0
Motors == 1..NumMotors
STEPPER_CW == "CW"
STEPPER_CCW == "CCW"
Directions == {STEPPER_CW, STEPPER_CCW}

(***************************************************************************)
(* stepper.c: data                                                         *)
(***************************************************************************)
\* static const bool step_sequence[8][4]
step_sequence ==
  [s \in 0..7 |->
     CASE s = 0 -> <<1, 0, 0, 0>>
       [] s = 1 -> <<1, 1, 0, 0>>
       [] s = 2 -> <<0, 1, 0, 0>>
       [] s = 3 -> <<0, 1, 1, 0>>
       [] s = 4 -> <<0, 0, 1, 0>>
       [] s = 5 -> <<0, 0, 1, 1>>
       [] s = 6 -> <<0, 0, 0, 1>>
       [] s = 7 -> <<1, 0, 0, 1>>]

AllLow == <<0, 0, 0, 0>>

VARIABLES
  motors,                  \* stepper_motor_t steppers[]: current_step, enabled,
                           \* step_delay, and the level of the four GPIO outputs
  stepper_interrupt_flag,  \* stepper.c:20
  rot,                     \* the stepping call in progress (its locals, its position)
  g_flagAtCall,            \* history: the flag was set when the call in progress began
  g_observed,              \* history: the call in progress has read the flag as set
  g_chunks,                \* history: delay chunks slept, in this call, with the flag set
  g_slept,                 \* history: delay chunks slept in this call
  g_lastop,                \* history: the engine function that ran last
  g_held,                  \* history: per motor, current_step at its emergency stop,
                           \* or -1 once it was enabled explicitly
  g_calls                  \* history: engine functions called so far

motVars == <<motors, stepper_interrupt_flag>>
engGhost == <<g_flagAtCall, g_observed, g_chunks, g_slept, g_lastop, g_held,
              g_calls>>
engVars == <<motors, stepper_interrupt_flag, rot, g_flagAtCall, g_observed,
             g_chunks, g_slept, g_lastop, g_held, g_calls>>


(***************************************************************************)
(* stepper.c: the functions, as operators on a motor record                *)
(* [current_step, enabled, step_delay, pins] and on the array of them.     *)
(***************************************************************************)
\* stepper.c:34-47
stepper_apply_step(m, step) ==
  IF ~m.enabled
    THEN m
    ELSE [m EXCEPT !.pins = step_sequence[step], !.current_step = step]

\* stepper.c:49-77 (the motor after stepper_init)
stepper_init(delay) ==
  stepper_apply_step([current_step |-> 0, enabled |-> TRUE,
                      step_delay |-> delay, pins |-> AllLow], 0)

\* Variant: the phase stops at the ends of the table.
NextPhase_nowrap(cur, dir) ==
  IF dir = STEPPER_CW
    THEN (IF cur = 7 THEN 7 ELSE cur + 1)
    ELSE (IF cur = 0 THEN 0 ELSE cur - 1)

\* stepper.c:94-101 and 204-211: the phase after one step in direction dir
NextPhase(cur, dir) ==
  IF dir = STEPPER_CW THEN (cur + 1) % 8 ELSE (cur - 1 + 8) % 8

\* stepper.c:129 and 188: (uint)((degrees / 360.0f) * STEPS_PER_REVOLUTION),
\* for whole degrees; the cast truncates.
DegreesToSteps(degrees) == (degrees * STEPS_PER_REVOLUTION) \div 360

\* stepper.c:94-103: one step of stepper_move_steps on its motor
MoveAdvance(m, dir) ==
  LET nxt == NextPhase(m.current_step, dir)
  IN  stepper_apply_step([m EXCEPT !.current_step = nxt], nxt)

\* Variant: the entry is stepped without the test of enabled.
RotateAdvanceMotor_unguarded(m, dir) == MoveAdvance(m, dir)

\* stepper.c:201-213: one step of stepper_rotate_multiple_degrees on one entry
RotateAdvanceMotor(m, dir) ==
  IF m.enabled THEN MoveAdvance(m, dir) ELSE m

\* Variant: only the first entry of the array is stepped.
RotateAdvanceAll_first(ms, arr, dir) ==
  [k \in DOMAIN ms |->
     IF arr[1] = k THEN RotateAdvanceMotor(ms[k], dir) ELSE ms[k]]

\* stepper.c:199-214: the loop over the motor array (entries are distinct
\* motors or NULL)
RotateAdvanceAll(ms, arr, dir) ==
  [k \in DOMAIN ms |->
     IF \E i \in DOMAIN arr : arr[i] = k
       THEN RotateAdvanceMotor(ms[k], dir)
       ELSE ms[k]]

\* stepper.c:218-231: the entries whose delay the step may use
DelayCandidates(ms, arr) ==
  {i \in DOMAIN arr : arr[i] # NULL /\ ms[arr[i]].enabled}

\* stepper.c:218-222: remaining_delay, taken from the first enabled motor;
\* 0 when the loop finds none (no delay is performed)
FirstDelay(ms, arr) ==
  IF DelayCandidates(ms, arr) = {}
    THEN 0
    ELSE LET i == CHOOSE j \in DelayCandidates(ms, arr) :
                    \A k \in DelayCandidates(ms, arr) : j <= k
         IN  ms[arr[i]].step_delay

\* stepper.c:133-146
stepper_disable(m) == [m EXCEPT !.enabled = FALSE, !.pins = AllLow]

\* stepper.c:148-157
stepper_enable(m) ==
  stepper_apply_step([m EXCEPT !.enabled = TRUE], m.current_step)

\* Variant: the motors are disabled with their outputs left as they are.
stepper_emergency_stop_all_live(ms, num_motors) ==
  [k \in DOMAIN ms |->
     IF k <= num_motors THEN [ms[k] EXCEPT !.enabled = FALSE] ELSE ms[k]]

\* Variant: the loop stops one motor short.
stepper_emergency_stop_all_short(ms, num_motors) ==
  [k \in DOMAIN ms |->
     IF k < num_motors
       THEN [ms[k] EXCEPT !.pins = AllLow, !.enabled = FALSE]
       ELSE ms[k]]

\* stepper.c:308-329
stepper_emergency_stop_all(ms, num_motors) ==
  [k \in DOMAIN ms |->
     IF k <= num_motors
       THEN [ms[k] EXCEPT !.pins = AllLow, !.enabled = FALSE]
       ELSE ms[k]]

\* run.c:144-147: the ON handler's re-enabling loop (sets the field only)
EnableAll(ms, num_motors) ==
  [k \in DOMAIN ms |->
     IF k <= num_motors THEN [ms[k] EXCEPT !.enabled = TRUE] ELSE ms[k]]

(***************************************************************************)
(* The stepping call in progress.  rot.pc is the position inside           *)
(* stepper_move_steps / stepper_rotate_multiple_degrees:                   *)
(*   check    loop condition and the flag test before the step             *)
(*   advance  the phase update of the motors, then remaining_delay         *)
(*   delay    the condition of the chunked delay loop                      *)
(*   sleep    sleep_ms(1) and the decrement                                *)
(*   post     the flag test after the delay                                *)
(***************************************************************************)
RotIdle ==
  [pc |-> "idle", kind |-> "none", arr |-> <<>>, steps |-> 0, step |-> 0,
   dir |-> STEPPER_CW, remaining |-> 0]

\* start is history: the phase of every motor when the call began.
RotBegin(kind, arr, steps, dir) ==
  [pc |-> "check", kind |-> kind, arr |-> arr, steps |-> steps, step |-> 0,
   dir |-> dir, remaining |-> 0,
   start |-> [k \in Motors |-> motors[k].current_step]]

RotRunning == rot.pc # "idle"

\* The history variables at the start of a stepping call.
GhostBegin ==
  /\ g_flagAtCall' = stepper_interrupt_flag
  /\ g_observed' = FALSE
  /\ g_chunks' = 0
  /\ g_slept' = 0

\* The history variables of the stepping call, at a call of another function.
GhostReset ==
  /\ g_flagAtCall' = FALSE
  /\ g_observed' = FALSE
  /\ g_chunks' = 0
  /\ g_slept' = 0

\* Variant: the loop head without the flag test.
RotCheck_noflag ==
  /\ rot.pc = "check"
  /\ IF rot.step >= rot.steps
       THEN rot' = RotIdle
       ELSE rot' = [rot EXCEPT !.pc = "advance"]
  /\ UNCHANGED <<motors, stepper_interrupt_flag, g_flagAtCall, g_observed,
                 g_chunks, g_slept, g_lastop, g_held, g_calls>>

\* stepper.c:86-92 and 191-197
RotCheck ==
  /\ rot.pc = "check"
  /\ IF rot.step >= rot.steps
       THEN rot' = RotIdle /\ g_observed' = g_observed
       ELSE IF stepper_interrupt_flag
         THEN rot' = RotIdle /\ g_observed' = TRUE
         ELSE rot' = [rot EXCEPT !.pc = "advance"] /\ g_observed' = g_observed
  /\ UNCHANGED <<motors, stepper_interrupt_flag, g_flagAtCall, g_chunks,
                 g_slept, g_lastop, g_held, g_calls>>

\* The motors after the phase update of one step of the call in progress.
AdvanceResult(ms, r) ==
  IF r.kind = "single"
    THEN [ms EXCEPT ![r.arr[1]] = MoveAdvance(ms[r.arr[1]], r.dir)]
    ELSE RotateAdvanceAll(ms, r.arr, r.dir)

\* remaining_delay of the step (stepper.c:106 and 218-222), read after the
\* phase update
DelayResult(ms, r) ==
  IF r.kind = "single" THEN ms[r.arr[1]].step_delay ELSE FirstDelay(ms, r.arr)

\* stepper.c:94-106 and 199-222
RotAdvance ==
  /\ rot.pc = "advance"
  /\ motors' = AdvanceResult(motors, rot)
  /\ rot' = [rot EXCEPT !.pc = "delay",
                        !.remaining = DelayResult(AdvanceResult(motors, rot), rot)]
  /\ UNCHANGED <<stepper_interrupt_flag, engGhost>>

\* Variant: the delay loop without the flag test.
DelayContinues_noflag(remaining, flag) == remaining > 0

\* The condition of the delay loop (stepper.c:107 and 223): TRUE to sleep
\* another chunk.
DelayContinues(remaining, flag) == remaining > 0 /\ ~flag

RotDelayCond ==
  /\ rot.pc = "delay"
  /\ IF DelayContinues(rot.remaining, stepper_interrupt_flag)
       THEN rot' = [rot EXCEPT !.pc = "sleep"]
       ELSE rot' = [rot EXCEPT !.pc = "post"]
  /\ g_observed' = (g_observed \/ (rot.remaining > 0 /\ stepper_interrupt_flag))
  /\ UNCHANGED <<motors, stepper_interrupt_flag, g_flagAtCall, g_chunks,
                 g_slept, g_lastop, g_held, g_calls>>

\* stepper.c:109-111 and 225-227: chunk_delay is 1 whenever remaining_delay > 0
RotSleep ==
  /\ rot.pc = "sleep"
  /\ rot' = [rot EXCEPT !.pc = "delay", !.remaining = rot.remaining - 1]
  /\ g_slept' = g_slept + 1
  /\ g_chunks' = IF stepper_interrupt_flag THEN g_chunks + 1 ELSE g_chunks
  /\ UNCHANGED <<motors, stepper_interrupt_flag, g_flagAtCall, g_observed,
                 g_lastop, g_held, g_calls>>

\* stepper.c:115-118 and 234-237, then the loop increment
RotPost ==
  /\ rot.pc = "post"
  /\ IF stepper_interrupt_flag
       THEN rot' = RotIdle /\ g_observed' = TRUE
       ELSE /\ rot' = [rot EXCEPT !.pc = "check", !.step = rot.step + 1,
                                  !.remaining = 0]
            /\ g_observed' = g_observed
  /\ UNCHANGED <<motors, stepper_interrupt_flag, g_flagAtCall, g_chunks,
                 g_slept, g_lastop, g_held, g_calls>>

\* One statement-level step of the stepping call in progress.
RotStep == RotCheck \/ RotAdvance \/ RotDelayCond \/ RotSleep \/ RotPost

(***************************************************************************)
(* The stepping engine driven through its public functions (SpecEngine).   *)
(* A function is called when no stepping call is in progress; the flag may *)
(* be raised at any point of a stepping call.                              *)
(***************************************************************************)
\* The motor arrays passed to stepper_rotate_multiple_degrees: entry i is
\* motor i or NULL, for the first n entries.
MotorArrays ==
  {[i \in 1..n |-> IF i \in sel THEN i ELSE NULL] :
     n \in 0..NumMotors, sel \in SUBSET Motors}

\* An engine function is called: none is running, and the behaviour has calls left.
Callable == ~RotRunning /\ g_calls < MaxCalls

\* The delay stepper_init gives motor k in the model (run.c:109 gives
\* every motor STEPPER_DELAY_MS).
InitDelay(k) == ((k - 1) % MaxDelay) + 1

EngInitMotors == [k \in Motors |-> stepper_init(InitDelay(k))]

\* stepper.c:179-189: entry of stepper_rotate_multiple_degrees
EngRotateMultiple ==
  /\ Callable
  /\ g_calls' = g_calls + 1
  /\ \E arr \in MotorArrays, degrees \in 0..MaxDegrees, dir \in Directions :
       rot' = IF Len(arr) = 0
                THEN RotIdle
                ELSE RotBegin("multi", arr, DegreesToSteps(degrees), dir)
  /\ GhostBegin
  /\ g_lastop' = "rotate_multiple"
  /\ UNCHANGED <<motors, stepper_interrupt_flag, g_held>>

\* Variant: the entry without the test of enabled.
MoveBegin_unchecked(m, steps, dir) ==
  IF m = NULL
    THEN RotIdle
    ELSE RotBegin("single", <<m>>, steps, dir)

\* stepper.c:79-86: entry of stepper_move_steps, m a motor or NULL
MoveBegin(m, steps, dir) ==
  IF m = NULL \/ ~motors[m].enabled
    THEN RotIdle
    ELSE RotBegin("single", <<m>>, steps, dir)

EngMoveSteps ==
  /\ Callable
  /\ g_calls' = g_calls + 1
  /\ \E m \in Motors \cup {NULL}, steps \in 0..DegreesToSteps(MaxDegrees),
        dir \in Directions :
       rot' = MoveBegin(m, steps, dir)
  /\ GhostBegin
  /\ g_lastop' = "move_steps"
  /\ UNCHANGED <<motors, stepper_interrupt_flag, g_held>>

\* stepper.c:122-131
EngRotateDegrees ==
  /\ Callable
  /\ g_calls' = g_calls + 1
  /\ \E m \in Motors \cup {NULL}, degrees \in 0..MaxDegrees,
        dir \in Directions :
       rot' = IF m = NULL \/ ~motors[m].enabled
                THEN RotIdle
                ELSE MoveBegin(m, DegreesToSteps(degrees), dir)
  /\ GhostBegin
  /\ g_lastop' = "rotate_degrees"
  /\ UNCHANGED <<motors, stepper_interrupt_flag, g_held>>

EngEnable ==
  /\ Callable
  /\ g_calls' = g_calls + 1
  /\ \E m \in Motors :
       /\ motors' = [motors EXCEPT ![m] = stepper_enable(motors[m])]
       /\ g_held' = [g_held EXCEPT ![m] = -1]
  /\ g_lastop' = "enable"
  /\ GhostReset
  /\ UNCHANGED <<stepper_interrupt_flag, rot>>

EngDisable ==
  /\ Callable
  /\ g_calls' = g_calls + 1
  /\ \E m \in Motors :
       motors' = [motors EXCEPT ![m] = stepper_disable(motors[m])]
  /\ g_lastop' = "disable"
  /\ GhostReset
  /\ UNCHANGED <<stepper_interrupt_flag, rot, g_held>>

EngEmergencyStopAll ==
  /\ Callable
  /\ g_calls' = g_calls + 1
  /\ motors' = stepper_emergency_stop_all(motors, NumMotors)
  /\ g_held' = [k \in Motors |-> motors[k].current_step]
  /\ g_lastop' = "emergency_stop_all"
  /\ GhostReset
  /\ UNCHANGED <<stepper_interrupt_flag, rot>>

\* stepper.c:303-306; it may run at any point of a stepping call
EngSetInterrupt ==
  /\ ~stepper_interrupt_flag
  /\ stepper_interrupt_flag' = TRUE
  /\ UNCHANGED <<motors, rot, engGhost>>

\* stepper.c:331-334
EngClearInterrupt ==
  /\ ~RotRunning
  /\ stepper_interrupt_flag
  /\ stepper_interrupt_flag' = FALSE
  /\ UNCHANGED <<motors, rot, engGhost>>

EngInit ==
  /\ motors = EngInitMotors
  /\ stepper_interrupt_flag = FALSE
  /\ rot = RotIdle
  /\ g_flagAtCall = FALSE
  /\ g_observed = FALSE
  /\ g_chunks = 0
  /\ g_slept = 0
  /\ g_lastop = "init"
  /\ g_held = [k \in Motors |-> -1]
  /\ g_calls = 0


(***************************************************************************)
(* lora.c: the UART receive ring buffer (uart_rx_buffer_t).                *)
(* A byte is a one-character string.  The record holds the array, head,    *)
(* tail and overflow; the array's size stands for UART_RX_BUFFER_SIZE      *)
(* (512 in lora.c:34), so that each specification picks its own capacity.  *)
(***************************************************************************)
\* Capacity of the ring buffer in SpecRing.
RingSize == 4
\* The byte values put into the buffer in SpecRing.
RingBytes == {"A", "B"}

NUL == "NUL"

VARIABLES
  uart_buffer,   \* internal_state.uart_buffer
  rb,            \* history of SpecRing: the bytes offered to put and returned by
                 \* get since the buffer was last empty, and the last results
  gp,            \* the uart_buffer_get call in progress: its position and the
                 \* byte it has read (SpecConc)
  ln,            \* the line reader under test: its input, max_len and the
                 \* lines returned so far (SpecLine)
  pf,            \* the function of lora.c applied to an argument, and its
                 \* result (SpecPure)
  api            \* the library operation called, its arguments and what it
                 \* returned (SpecApi)

\* sizeof buffer->buffer, i.e. UART_RX_BUFFER_SIZE
BufSize(b) == Cardinality(DOMAIN b.buffer)

\* The zeroed structure (lora.c:115) with an array of the given size.
EmptyBuffer(size) ==
  [buffer |-> [i \in 0..(size - 1) |-> NUL], head |-> 0, tail |-> 0,
   overflow |-> FALSE]

\* lora.c:633-638
uart_buffer_init(b) == [b EXCEPT !.head = 0, !.tail = 0, !.overflow = FALSE]

\* lora.c:642-644: the test that the buffer takes another byte
PutAccepts(b) == (b.head + 1) % BufSize(b) # b.tail

\* Variant: the byte is stored one slot ahead.
uart_buffer_put_ahead(b, c) ==
  LET next_head == (b.head + 1) % BufSize(b)
  IN  IF next_head = b.tail
        THEN [b EXCEPT !.overflow = TRUE]
        ELSE [b EXCEPT !.buffer[next_head] = c, !.head = next_head]

\* Variant: the byte is stored without the test for a full buffer.
uart_buffer_put_unchecked(b, c) ==
  [b EXCEPT !.buffer[b.head] = c, !.head = (b.head + 1) % BufSize(b)]

\* lora.c:640-653: the buffer after uart_buffer_put(b, c)
uart_buffer_put(b, c) ==
  LET next_head == (b.head + 1) % BufSize(b)
  IN  IF next_head = b.tail
        THEN [b EXCEPT !.overflow = TRUE]
        ELSE [b EXCEPT !.buffer[b.head] = c, !.head = next_head]

\* lora.c:657: the test that uart_buffer_get returns a byte
GetHasByte(b) == b.head # b.tail

\* Variant: the byte is read from the slot before the tail.
GetByte_behind(b) == b.buffer[(b.tail + BufSize(b) - 1) % BufSize(b)]

\* lora.c:662: the byte uart_buffer_get returns
GetByte(b) == b.buffer[b.tail]

\* Variant: a get that takes a byte also resets the overflow flag.
uart_buffer_get_resets(b) ==
  IF b.head = b.tail
    THEN b
    ELSE [b EXCEPT !.tail = (b.tail + 1) % BufSize(b), !.overflow = FALSE]

\* lora.c:655-665: the buffer after uart_buffer_get(b, &c)
uart_buffer_get(b) ==
  IF b.head = b.tail
    THEN b
    ELSE [b EXCEPT !.tail = (b.tail + 1) % BufSize(b)]

\* lora.c:667-670
uart_buffer_available(b) == (b.head - b.tail + BufSize(b)) % BufSize(b)

(***************************************************************************)
(* The ring buffer driven by its three operations (SpecRing).  rb.offered  *)
(* are the bytes passed to put since the buffer was last empty, rb.taken   *)
(* the bytes get returned since then; rb.pure says that no put followed a  *)
(* get in that episode (fill, then drain); rb.count is the number of bytes *)
(* put accepted and get has not returned yet; rb.op is the last operation. *)
(***************************************************************************)
RbStart ==
  [offered |-> <<>>, taken |-> <<>>, pure |-> TRUE, lastget |-> "none",
   lastput |-> "none", count |-> 0, op |-> "none"]

\* No uart_buffer_get call is in progress.
GpIdle == [pc |-> "idle", c |-> NUL, preempted |-> FALSE]
\* No function is applied.
PfIdle == [fn |-> "none", arg |-> <<>>, done |-> FALSE, out |-> FALSE]
\* No library operation was called.
ApiIdle == [op |-> "none", status |-> "none", calls |-> 0]
\* No line reader is under test.
LnIdle == [input |-> <<>>, max_len |-> 0, lines |-> <<>>, last |-> "idle", pos |-> 0]

RingInit ==
  /\ uart_buffer = EmptyBuffer(RingSize)
  /\ rb = RbStart
  /\ gp = GpIdle
  /\ pf = PfIdle
  /\ api = ApiIdle
  /\ ln = LnIdle

RingPut ==
  \E c \in RingBytes :
    /\ Len(rb.offered) < BufSize(uart_buffer) \/ ~GetHasByte(uart_buffer)
    /\ uart_buffer' = uart_buffer_put(uart_buffer, c)
    /\ rb' = IF ~GetHasByte(uart_buffer)
               THEN [RbStart EXCEPT
                       !.offered = <<c>>,
                       !.lastput = IF PutAccepts(uart_buffer) THEN "ok" ELSE "full",
                       !.count = IF PutAccepts(uart_buffer) THEN 1 ELSE 0,
                       !.op = "put"]
               ELSE [rb EXCEPT
                       !.offered = Append(rb.offered, c),
                       !.pure = rb.pure /\ rb.taken = <<>>,
                       !.lastget = "none",
                       !.lastput = IF PutAccepts(uart_buffer) THEN "ok" ELSE "full",
                       !.count = IF PutAccepts(uart_buffer)
                                   THEN rb.count + 1 ELSE rb.count,
                       !.op = "put"]

RingGet ==
  /\ uart_buffer' = uart_buffer_get(uart_buffer)
  /\ rb' = IF GetHasByte(uart_buffer)
             THEN [rb EXCEPT !.taken = Append(rb.taken, GetByte(uart_buffer)),
                             !.lastget = "ok", !.lastput = "none",
                             !.count = rb.count - 1, !.op = "get"]
             ELSE [rb EXCEPT !.lastget = "empty", !.lastput = "none",
                             !.op = "get"]

RingInitOp ==
  /\ uart_buffer' = uart_buffer_init(uart_buffer)
  /\ rb' = [RbStart EXCEPT !.op = "init"]


ringVars == <<uart_buffer, rb>>


(***************************************************************************)
(* C strings, as sequences of one-character strings (the terminating NUL   *)
(* is the end of the sequence), and the libc functions lora.c uses.        *)
(***************************************************************************)
CR == "\r"
LF == "\n"

Digits == <<"0", "1", "2", "3", "4", "5", "6", "7", "8", "9">>
IsDigit(c) == \E d \in 1..10 : Digits[d] = c
DigitVal(c) == (CHOOSE d \in 1..10 : Digits[d] = c) - 1

LowerCase == <<"a", "b", "c", "d", "e", "f", "g", "h", "i", "j", "k", "l", "m",
               "n", "o", "p", "q", "r", "s", "t", "u", "v", "w", "x", "y", "z">>
UpperCase == <<"A", "B", "C", "D", "E", "F", "G", "H", "I", "J", "K", "L", "M",
               "N", "O", "P", "Q", "R", "S", "T", "U", "V", "W", "X", "Y", "Z">>

\* toupper
ToUpper(c) ==
  IF \E i \in 1..26 : LowerCase[i] = c
    THEN UpperCase[CHOOSE i \in 1..26 : LowerCase[i] = c]
    ELSE c

\* strcasecmp(a, b) == 0
StrCaseEq(a, b) ==
  /\ Len(a) = Len(b)
  /\ \A i \in 1..Len(a) : ToUpper(a[i]) = ToUpper(b[i])

\* strncmp(s, p, Len(p)) == 0
StartsWith(s, p) ==
  /\ Len(s) >= Len(p)
  /\ \A i \in 1..Len(p) : s[i] = p[i]

\* strstr(s, p) != NULL
Contains(s, p) ==
  \E k \in 0..(Len(s) - Len(p)) : \A i \in 1..Len(p) : s[k + i] = p[i]

\* strchr(s + (from - 1), c): the index of the first c at or after from, 0 for NULL
StrChr(s, from, c) ==
  IF \E i \in from..Len(s) : s[i] = c
    THEN CHOOSE i \in from..Len(s) :
           s[i] = c /\ \A j \in from..(i - 1) : s[j] # c
    ELSE 0

\* The first index at or after from that holds no digit (Len(s) + 1 at the end).
DigitsEnd(s, from) ==
  CHOOSE e \in from..(Len(s) + 1) :
    /\ \A j \in from..(e - 1) : IsDigit(s[j])
    /\ e = Len(s) + 1 \/ ~IsDigit(s[e])

RECURSIVE DecimalValue(_, _, _)
\* The value of the digits s[from..to-1]
DecimalValue(s, from, to) ==
  IF to <= from THEN 0
  ELSE DecimalValue(s, from, to - 1) * 10 + DigitVal(s[to - 1])

\* strtoul / strtol(s + (from - 1), &end, 10) on an optional sign and digits:
\* the value, and the index where parsing stopped (from when there is no digit).
StrToL(s, from) ==
  LET signed == from <= Len(s) /\ s[from] \in {"-", "+"}
      first  == IF signed THEN from + 1 ELSE from
      e      == DigitsEnd(s, first)
      mag    == DecimalValue(s, first, e)
  IN  IF e = first
        THEN [value |-> 0, next |-> from]
        ELSE [value |-> IF signed /\ s[from] = "-" THEN 0 - mag ELSE mag,
              next |-> e]

\* Conversions to uint16_t and uint8_t
U16(n) == n % 65536
U8(n) == n % 256
Abs(n) == IF n < 0 THEN 0 - n ELSE n

(***************************************************************************)
(* lora.c: classification and parsing of a reassembled line                *)
(***************************************************************************)
LORA_MAX_MESSAGE_LENGTH == 240
RESPONSE_BUFFER_SIZE == 256
\* char response[64] of lora_send_message
SEND_RESPONSE_SIZE == 64

RCV_PREFIX == <<"+", "R", "C", "V", "=">>

\* Variant: only the leading characters are compared.
lora_is_on_command_prefix(message) ==
  \E w \in {<<"O", "N">>, <<"S", "T", "A", "R", "T">>, <<"M", "O", "V", "E">>, <<"1">>} :
    Len(message) >= Len(w) /\ StrCaseEq(SubSeq(message, 1, Len(w)), w)

\* lora.c:481-493
lora_is_on_command(message) ==
  \/ StrCaseEq(message, <<"O", "N">>)
  \/ StrCaseEq(message, <<"S", "T", "A", "R", "T">>)
  \/ StrCaseEq(message, <<"M", "O", "V", "E">>)
  \/ StrCaseEq(message, <<"1">>)

\* lora.c:495-507
lora_is_off_command(message) ==
  \/ StrCaseEq(message, <<"O", "F", "F">>)
  \/ StrCaseEq(message, <<"S", "T", "O", "P">>)
  \/ StrCaseEq(message, <<"H", "A", "L", "T">>)
  \/ StrCaseEq(message, <<"0">>)

\* Variant: the success marker is looked for first.
is_response_ok_okfirst(response) ==
  \/ Contains(response, <<"O", "K">>)
  \/ Contains(response, <<"+", "O", "K">>)

\* lora.c:602-617
is_response_ok(response) ==
  IF \/ Contains(response, <<"+", "E", "R", "R">>)
     \/ Contains(response, <<"E", "R", "R", "O", "R">>)
    THEN FALSE
    ELSE Contains(response, <<"O", "K">>) \/ Contains(response, <<"+", "O", "K">>)

\* memset(message, 0, sizeof(lora_message_t))
ZeroMessage ==
  [sender_address |-> 0, payload_length |-> 0, payload |-> <<>>, rssi |-> 0]

\* Variant: payload_length keeps the declared length field.
parse_received_message_declared(response) ==
  LET a     == StrToL(response, 6)
      p1    == IF a.next <= Len(response) /\ response[a.next] = ","
                 THEN a.next + 1 ELSE a.next
      l     == StrToL(response, p1)
      start == IF l.next <= Len(response) /\ response[l.next] = ","
                 THEN l.next + 1 ELSE l.next
      pend  == StrChr(response, start, ",")
      span  == U8(pend - start)
      plen  == IF span > LORA_MAX_MESSAGE_LENGTH - 1
                 THEN LORA_MAX_MESSAGE_LENGTH - 1 ELSE span
      base  == [ZeroMessage EXCEPT !.sender_address = U16(a.value),
                                   !.payload_length = U8(l.value)]
  IN  IF pend = 0
        THEN base
        ELSE [base EXCEPT
                !.payload = SubSeq(response, start, start + plen - 1),
                !.rssi = U8(Abs(StrToL(response, pend + 1).value))]

\* lora.c:558-600
parse_received_message(response) ==
  LET a     == StrToL(response, 6)
      p1    == IF a.next <= Len(response) /\ response[a.next] = ","
                 THEN a.next + 1 ELSE a.next
      l     == StrToL(response, p1)
      start == IF l.next <= Len(response) /\ response[l.next] = ","
                 THEN l.next + 1 ELSE l.next
      pend  == StrChr(response, start, ",")
      span  == U8(pend - start)
      plen  == IF span > LORA_MAX_MESSAGE_LENGTH - 1
                 THEN LORA_MAX_MESSAGE_LENGTH - 1 ELSE span
      base  == [ZeroMessage EXCEPT !.sender_address = U16(a.value),
                                   !.payload_length = U8(l.value)]
  IN  IF pend = 0
        THEN base
        ELSE [base EXCEPT
                !.payload = SubSeq(response, start, start + plen - 1),
                !.payload_length = plen,
                !.rssi = U8(Abs(StrToL(response, pend + 1).value))]

\* Variant: a terminator ends a line even when nothing was collected.
uart_buffer_get_line_step_noskip(b, line, max_len) ==
  IF Len(line) < max_len - 1 /\ GetHasByte(b)
    THEN LET c == GetByte(b)
         IN  IF c = CR \/ c = LF
               THEN [buf |-> uart_buffer_get(b), line |-> line, status |-> "line"]
               ELSE [buf |-> uart_buffer_get(b), line |-> Append(line, c),
                     status |-> "more"]
    ELSE [buf |-> b, line |-> line,
          status |-> IF Len(line) > 0 THEN "line" ELSE "none"]

\* Variant: what was collected is dropped when the buffer runs out.
uart_buffer_get_line_step_nopartial(b, line, max_len) ==
  IF Len(line) < max_len - 1 /\ GetHasByte(b)
    THEN LET c == GetByte(b)
         IN  IF c = CR \/ c = LF
               THEN [buf |-> uart_buffer_get(b), line |-> line,
                     status |-> IF Len(line) > 0 THEN "line" ELSE "more"]
               ELSE [buf |-> uart_buffer_get(b), line |-> Append(line, c),
                     status |-> "more"]
    ELSE [buf |-> b, line |-> <<>>, status |-> "none"]

\* Variant: the loop collects max_len bytes.
uart_buffer_get_line_step_overrun(b, line, max_len) ==
  IF Len(line) < max_len /\ GetHasByte(b)
    THEN LET c == GetByte(b)
         IN  IF c = CR \/ c = LF
               THEN [buf |-> uart_buffer_get(b), line |-> line,
                     status |-> IF Len(line) > 0 THEN "line" ELSE "more"]
               ELSE [buf |-> uart_buffer_get(b), line |-> Append(line, c),
                     status |-> "more"]
    ELSE [buf |-> b, line |-> line,
          status |-> IF Len(line) > 0 THEN "line" ELSE "none"]

\* Variant: a byte that does not fit the destination is taken out of the
\* buffer and ends the line.
uart_buffer_get_line_step_eager(b, line, max_len) ==
  IF GetHasByte(b)
    THEN LET c == GetByte(b)
         IN  IF c = CR \/ c = LF
               THEN [buf |-> uart_buffer_get(b), line |-> line,
                     status |-> IF Len(line) > 0 THEN "line" ELSE "more"]
               ELSE IF Len(line) < max_len - 1
                 THEN [buf |-> uart_buffer_get(b), line |-> Append(line, c),
                       status |-> "more"]
                 ELSE [buf |-> uart_buffer_get(b), line |-> line,
                       status |-> "line"]
    ELSE [buf |-> b, line |-> line,
          status |-> IF Len(line) > 0 THEN "line" ELSE "none"]

(***************************************************************************)
(* lora.c:672-707: uart_buffer_get_line.                                   *)
(***************************************************************************)
\* One evaluation of the loop condition and, when it holds, one loop body:
\* the buffer and the line afterwards, and whether the function goes on
\* ("more"), returns true ("line") or returns false ("none").
uart_buffer_get_line_step(b, line, max_len) ==
  IF Len(line) < max_len - 1 /\ GetHasByte(b)
    THEN LET c == GetByte(b)
         IN  IF c = CR \/ c = LF
               THEN [buf |-> uart_buffer_get(b), line |-> line,
                     status |-> IF Len(line) > 0 THEN "line" ELSE "more"]
               ELSE [buf |-> uart_buffer_get(b), line |-> Append(line, c),
                     status |-> "more"]
    ELSE [buf |-> b, line |-> line,
          status |-> IF Len(line) > 0 THEN "line" ELSE "none"]

\* The loop from the line read so far to the return (r is the one result of
\* the iteration, bound once).
RECURSIVE GetLineRun(_, _, _)
GetLineRun(b, line, max_len) ==
  CHOOSE res \in
    {IF r.status = "more" THEN GetLineRun(r.buf, r.line, max_len) ELSE r :
       r \in {uart_buffer_get_line_step(b, line, max_len)}} : TRUE

\* lora.c:672-707: uart_buffer_get_line(b, line, max_len): the buffer
\* afterwards, the line, and the value returned.  A burst of the interrupt
\* handler falls before or after the call: the handler writes head only and
\* the call tail only, so a burst during the call gives the line of one of
\* the two.
uart_buffer_get_line(b, max_len) ==
  LET r == GetLineRun(b, <<>>, max_len)
  IN  [buf |-> r.buf, line |-> r.line, ok |-> r.status = "line"]

(***************************************************************************)
(* The receiver (run.c, receiver mode): the stepper-controller main loop,  *)
(* the message handler, the acknowledgment exchange of lora_send_message,  *)
(* the UART receive interrupt, and the radio module as environment.        *)
(***************************************************************************)
\* Capacity of the ring buffer in the receiver (a whole notification line
\* and a reply fit).
RecvRingSize == 20
\* Notifications the radio module delivers in one behaviour.
MaxMsgs == 2

\* The notification lines the module delivers: an activation, a
\* deactivation and an unrecognised payload, from sender 7 with RSSI -9.
LineOn  == <<"+","R","C","V","=","7",",","2",",","O","N",",","-","9">>
LineOff == <<"+","R","C","V","=","7",",","3",",","O","F","F",",","-","9">>
LineUnk == <<"+","R","C","V","=","7",",","1",",","X",",","-","9">>
\* The module's reply to an AT+SEND command.
LineOk  == <<"+","O","K">>

NotifyKinds == {"ON", "OFF", "X"}
NotifyLine(kind) ==
  CASE kind = "ON" -> LineOn
    [] kind = "OFF" -> LineOff
    [] kind = "X" -> LineUnk

VARIABLES
  pc,                 \* position of the main context
  lora_initialized,   \* run.c:496
  stepper_active,     \* run.c:61
  response,           \* the line uart_buffer_get_line returned to lora_receive_message
  msg,                \* the lora_message_t passed to the handler
  snd,                \* the acknowledgment text lora_send_message is sending
  wire,               \* bursts of bytes the module has sent, yet to reach the UART
  reply_due,          \* the module has a command to reply to
  sent,               \* notifications the module delivered so far
  hbranch,            \* history: the branch the running handler took
  hlog,               \* history: what the running handler did, in order
  hsnap,              \* history: flag, stepper_active and motors at handler entry
  g_rx,               \* history: the notification being received
  g_off_pending,      \* history: an OFF line was delivered whole and not acted on yet
  g_off_returned,     \* history: the OFF branch returned and no ON branch ran since
  at                  \* send_at_command: its result and response, and whether
                      \* the deadline of wait_for_response has passed

recvVars == <<pc, lora_initialized, stepper_active, response, msg, snd, wire,
              reply_due, sent, hbranch, hlog, hsnap, g_rx, g_off_pending,
              g_off_returned, at>>

vars == <<motors, stepper_interrupt_flag, rot, g_flagAtCall, g_observed,
          g_chunks, g_slept, g_lastop, g_held, g_calls, uart_buffer, rb,
          pc, lora_initialized, stepper_active, response, msg, snd, wire,
          reply_due, sent, hbranch, hlog, hsnap, g_rx, g_off_pending,
          g_off_returned, at, gp, ln, pf, api>>

NoSnap == [flag |-> FALSE, active |-> FALSE, motors |-> <<>>]
RxIdle == [kind |-> "none", left |-> 0, intact |-> TRUE]
\* No send_at_command call has a result.
AtIdle == [status |-> "none", response |-> <<>>, expired |-> FALSE]

recvGhost == <<hbranch, hlog, hsnap, g_rx, g_off_pending, g_off_returned>>
envVars == <<wire, reply_due, sent, g_rx>>

\* run.c:73-86: control_steppers starts the 1-degree clockwise increment
ControlSteppersBegin ==
  RotBegin("multi", [i \in 1..NumMotors |-> i], DegreesToSteps(1), STEPPER_CW)

\* Variant of the top of the loop that polls for messages whether or not
\* LoRa was initialised.
MainLoopTop_always ==
  /\ pc = "loop"
  /\ pc' = "recv_getline"
  /\ UNCHANGED <<motors, stepper_interrupt_flag, rot, uart_buffer,
                 lora_initialized, stepper_active, response, msg, snd, wire,
                 reply_due, sent, recvGhost>>

\* run.c:499-506 with lora.c:324-332 and 261-271: the top of the loop calls
\* lora_process_messages, which starts reading a line; without LoRa the
\* iteration does nothing
MainLoopTop ==
  /\ pc = "loop"
  /\ pc' = IF lora_initialized THEN "recv_getline" ELSE pc
  /\ UNCHANGED <<motors, stepper_interrupt_flag, rot, uart_buffer,
                 lora_initialized, stepper_active, response, msg, snd, wire,
                 reply_due, sent, recvGhost>>

\* lora.c:271-284 and 672-707: lora_receive_message reads a line into its
\* buffer of RESPONSE_BUFFER_SIZE bytes
RecvGetLine ==
  /\ pc = "recv_getline"
  /\ LET r == uart_buffer_get_line(uart_buffer, RESPONSE_BUFFER_SIZE)
     IN  /\ uart_buffer' = r.buf
         /\ IF r.ok
              THEN /\ response' = r.line
                   /\ pc' = "recv_classify"
              ELSE /\ pc' = "active"
                   /\ UNCHANGED response
  /\ UNCHANGED <<motors, stepper_interrupt_flag, rot, lora_initialized,
                 stepper_active, msg, snd, wire, reply_due, sent, recvGhost>>

\* run.c:134 and 161: the branch lora_message_handler takes
HandlerBranch(payload) ==
  IF lora_is_on_command(payload) THEN "on"
  ELSE IF lora_is_off_command(payload) THEN "off"
  ELSE "unknown"

BranchPc(branch) ==
  CASE branch = "on" -> "on_clear"
    [] branch = "off" -> "off_set"
    [] branch = "unknown" -> "unk_ack"

\* lora.c:286-308 and 334-340, run.c:122-134: the line is classified; a
\* notification is parsed and handed to the handler, anything else ends the
\* receive with an error status
RecvClassify ==
  /\ pc = "recv_classify"
  /\ response' = <<>>
  /\ IF StartsWith(response, RCV_PREFIX)
       THEN LET m == parse_received_message(response)
            IN  /\ msg' = m
                /\ hbranch' = HandlerBranch(m.payload)
                /\ pc' = BranchPc(HandlerBranch(m.payload))
                /\ hlog' = <<>>
                /\ hsnap' = [flag |-> stepper_interrupt_flag,
                             active |-> stepper_active, motors |-> motors]
       ELSE /\ pc' = "active"
            /\ UNCHANGED <<msg, hbranch, hlog, hsnap>>
  /\ UNCHANGED <<motors, stepper_interrupt_flag, rot, uart_buffer,
                 lora_initialized, stepper_active, snd, wire, reply_due,
                 sent, g_rx, g_off_pending, g_off_returned>>

\* Variant of the ON branch that latches the active state but leaves the
\* cancellation flag as it is.
OnClear_keeps ==
  /\ pc = "on_clear"
  /\ stepper_active' = TRUE
  /\ stepper_interrupt_flag' = stepper_interrupt_flag
  /\ hlog' = Append(hlog, "clear_interrupt")
  /\ g_off_returned' = FALSE
  /\ pc' = "on_enable"
  /\ UNCHANGED <<motors, rot, uart_buffer, lora_initialized, response, msg,
                 snd, envVars, hbranch, hsnap, g_off_pending>>

\* run.c:136-139: the ON branch latches the active state and clears the flag
OnClear ==
  /\ pc = "on_clear"
  /\ stepper_active' = TRUE
  /\ stepper_interrupt_flag' = FALSE
  /\ hlog' = Append(hlog, "clear_interrupt")
  /\ g_off_returned' = FALSE
  /\ pc' = "on_enable"
  /\ UNCHANGED <<motors, rot, uart_buffer, lora_initialized, response, msg,
                 snd, envVars, hbranch, hsnap, g_off_pending>>

\* run.c:141-148
OnEnable ==
  /\ pc = "on_enable"
  /\ motors' = EnableAll(motors, NumMotors)
  /\ hlog' = Append(hlog, "enable_all")
  /\ pc' = "on_control"
  /\ UNCHANGED <<stepper_interrupt_flag, rot, uart_buffer, lora_initialized,
                 stepper_active, response, msg, snd, envVars, hbranch,
                 hsnap, g_off_pending, g_off_returned>>

\* Variant: the ON branch sends its acknowledgment without the increment.
OnControl_skipped ==
  /\ pc = "on_control"
  /\ snd' = "STEPPERS_ON"
  /\ pc' = "send_init_head"
  /\ UNCHANGED <<motors, stepper_interrupt_flag, rot, g_flagAtCall, g_observed,
                 g_chunks, g_slept, uart_buffer, lora_initialized,
                 stepper_active, response, msg, envVars, hbranch, hlog,
                 hsnap, g_off_pending, g_off_returned>>

\* run.c:150-154: the handler calls control_steppers
OnControl ==
  /\ pc = "on_control"
  /\ rot' = ControlSteppersBegin
  /\ GhostBegin
  /\ hlog' = Append(hlog, "control_steppers")
  /\ pc' = "on_rotating"
  /\ UNCHANGED <<motors, stepper_interrupt_flag, uart_buffer, lora_initialized,
                 stepper_active, response, msg, snd, envVars, hbranch,
                 hsnap, g_off_pending, g_off_returned>>

\* run.c:156-158 with lora.c:224-243 and 511-519: control_steppers has
\* returned; lora_send_message formats the command and send_at_command begins
OnAck ==
  /\ pc = "on_rotating"
  /\ ~RotRunning
  /\ snd' = "STEPPERS_ON"
  /\ hlog' = Append(hlog, "control_returned")
  /\ pc' = "send_init_head"
  /\ UNCHANGED <<motors, stepper_interrupt_flag, rot, uart_buffer,
                 lora_initialized, stepper_active, response, msg, envVars,
                 hbranch, hsnap, g_off_pending, g_off_returned>>

\* Variant: the OFF branch without stepper_set_interrupt.
OffSet_noflag ==
  /\ pc = "off_set"
  /\ stepper_active' = FALSE
  /\ hlog' = Append(hlog, "set_interrupt")
  /\ pc' = "off_stop"
  /\ UNCHANGED <<motors, stepper_interrupt_flag, rot, uart_buffer,
                 lora_initialized, response, msg, snd, envVars, hbranch,
                 hsnap, g_off_pending, g_off_returned>>

\* run.c:163-166: the OFF branch drops the active state and raises the flag
OffSet ==
  /\ pc = "off_set"
  /\ stepper_active' = FALSE
  /\ stepper_interrupt_flag' = TRUE
  /\ hlog' = Append(hlog, "set_interrupt")
  /\ pc' = "off_stop"
  /\ UNCHANGED <<motors, rot, uart_buffer, lora_initialized, response, msg,
                 snd, envVars, hbranch, hsnap, g_off_pending, g_off_returned>>

\* Variant: the OFF branch without stepper_emergency_stop_all.
OffStop_nostop ==
  /\ pc = "off_stop"
  /\ hlog' = Append(hlog, "emergency_stop_all")
  /\ g_off_pending' = FALSE
  /\ snd' = "STEPPERS_OFF"
  /\ pc' = "send_init_head"
  /\ UNCHANGED <<motors, stepper_interrupt_flag, rot, uart_buffer,
                 lora_initialized, stepper_active, response, msg, envVars,
                 hbranch, hsnap, g_off_returned>>

\* run.c:168-176: the emergency stop, then lora_send_message begins
OffStop ==
  /\ pc = "off_stop"
  /\ motors' = stepper_emergency_stop_all(motors, NumMotors)
  /\ hlog' = Append(hlog, "emergency_stop_all")
  /\ g_off_pending' = FALSE
  /\ snd' = "STEPPERS_OFF"
  /\ pc' = "send_init_head"
  /\ UNCHANGED <<stepper_interrupt_flag, rot, uart_buffer, lora_initialized,
                 stepper_active, response, msg, envVars, hbranch, hsnap,
                 g_off_returned>>

\* Variant: the else branch also drops the active state.
UnknownAck_deactivates ==
  /\ pc = "unk_ack"
  /\ snd' = "UNKNOWN_COMMAND"
  /\ stepper_active' = FALSE
  /\ pc' = "send_init_head"
  /\ UNCHANGED <<motors, stepper_interrupt_flag, rot, uart_buffer,
                 lora_initialized, response, msg, envVars, recvGhost>>

\* run.c:178-185: the else branch only sends the error response
UnknownAck ==
  /\ pc = "unk_ack"
  /\ snd' = "UNKNOWN_COMMAND"
  /\ pc' = "send_init_head"
  /\ UNCHANGED <<motors, stepper_interrupt_flag, rot, uart_buffer,
                 lora_initialized, stepper_active, response, msg, envVars,
                 recvGhost>>

\* lora.c:619-638: clear_uart_buffer.  The interrupt handler has emptied the
\* hardware FIFO when the main context runs, so the drain loop reads nothing;
\* uart_buffer_init then writes head, tail and overflow one after the other.
SendInitHead ==
  /\ pc = "send_init_head"
  /\ uart_buffer' = [uart_buffer EXCEPT !.head = 0]
  /\ pc' = "send_init_tail"
  /\ UNCHANGED <<motors, stepper_interrupt_flag, rot, lora_initialized,
                 stepper_active, response, msg, snd, envVars, recvGhost>>

\* Variant: the clear leaves tail where it was.
SendInitTail_keeps ==
  /\ pc = "send_init_tail"
  /\ pc' = "send_init_ovf"
  /\ UNCHANGED <<motors, stepper_interrupt_flag, rot, uart_buffer,
                 lora_initialized, stepper_active, response, msg, snd,
                 envVars, recvGhost>>

SendInitTail ==
  /\ pc = "send_init_tail"
  /\ uart_buffer' = [uart_buffer EXCEPT !.tail = 0]
  /\ pc' = "send_init_ovf"
  /\ UNCHANGED <<motors, stepper_interrupt_flag, rot, lora_initialized,
                 stepper_active, response, msg, snd, envVars, recvGhost>>

SendInitOvf ==
  /\ pc = "send_init_ovf"
  /\ uart_buffer' = [uart_buffer EXCEPT !.overflow = FALSE]
  /\ pc' = "send_tx"
  /\ UNCHANGED <<motors, stepper_interrupt_flag, rot, lora_initialized,
                 stepper_active, response, msg, snd, envVars, recvGhost>>

\* lora.c:521-528: the command goes out; the module now has a command to
\* answer, and wait_for_response computes its deadline
SendTx ==
  /\ pc = "send_tx"
  /\ reply_due' = TRUE
  /\ hlog' = Append(hlog, snd)
  /\ pc' = "wait_first"
  /\ at' = AtIdle
  /\ UNCHANGED <<motors, stepper_interrupt_flag, rot, uart_buffer,
                 lora_initialized, stepper_active, response, msg, snd,
                 wire, sent, hbranch, hsnap, g_rx, g_off_pending,
                 g_off_returned>>

\* Variant: the wait ends with LORA_STATUS_OK whether or not a line was read.
WaitPoll_blind ==
  /\ pc \in {"wait_first", "wait"}
  /\ ~at.expired
  /\ LET r == uart_buffer_get_line(uart_buffer, SEND_RESPONSE_SIZE)
     IN  /\ uart_buffer' = r.buf
         /\ pc' = "handler_ret"
         /\ at' = [at EXCEPT !.status = "OK", !.response = r.line]
  /\ UNCHANGED <<motors, stepper_interrupt_flag, rot, lora_initialized,
                 stepper_active, response, msg, snd, envVars, recvGhost>>

\* lora.c:545-551 and 672-707: the deadline has not passed (the first
\* evaluation comes right after the deadline was computed); the loop reads
\* a line into the caller's buffer of SEND_RESPONSE_SIZE bytes, and any line
\* ends the wait; lora.c:537-538: send_at_command returns LORA_STATUS_OK
WaitPoll ==
  /\ pc \in {"wait_first", "wait"}
  /\ ~at.expired
  /\ LET r == uart_buffer_get_line(uart_buffer, SEND_RESPONSE_SIZE)
     IN  /\ uart_buffer' = r.buf
         /\ pc' = IF r.ok THEN "handler_ret" ELSE "wait"
         /\ at' = IF r.ok THEN [at EXCEPT !.status = "OK", !.response = r.line]
                          ELSE at
  /\ UNCHANGED <<motors, stepper_interrupt_flag, rot, lora_initialized,
                 stepper_active, response, msg, snd, envVars, recvGhost>>

\* lora.c:545 and 555, 530-535: the deadline has passed; send_at_command
\* returns LORA_STATUS_TIMEOUT
WaitTimeout ==
  /\ pc = "wait"
  /\ at.expired
  /\ pc' = "handler_ret"
  /\ at' = [at EXCEPT !.status = "TIMEOUT"]
  /\ UNCHANGED <<motors, stepper_interrupt_flag, rot, uart_buffer,
                 lora_initialized, stepper_active, response, msg, snd,
                 envVars, recvGhost>>

\* lora.c:543-545: the time reaches the deadline of wait_for_response while
\* the loop is polling
Expire ==
  /\ pc = "wait"
  /\ ~at.expired
  /\ at' = [at EXCEPT !.expired = TRUE]
  /\ UNCHANGED <<motors, stepper_interrupt_flag, rot, uart_buffer, pc,
                 lora_initialized, stepper_active, response, msg, snd,
                 envVars, recvGhost>>

\* lora.c:245-252, run.c:159/177/185, lora.c:347, run.c:507-513:
\* lora_send_message, the handler and lora_process_messages return
HandlerReturn ==
  /\ pc = "handler_ret"
  /\ pc' = "active"
  /\ msg' = ZeroMessage
  /\ snd' = "none"
  /\ hbranch' = "none"
  /\ hlog' = <<>>
  /\ hsnap' = NoSnap
  /\ g_off_returned' = (g_off_returned \/ hbranch = "off")
  /\ at' = AtIdle
  /\ UNCHANGED <<motors, stepper_interrupt_flag, rot, uart_buffer,
                 lora_initialized, stepper_active, response, envVars,
                 g_off_pending>>

\* Variant of the loop's stepping branch with control_steppers run on another
\* context: the loop goes on to its next iteration while the call is running.
MainActive_async ==
  /\ pc = "active"
  /\ IF stepper_active
       THEN IF stepper_interrupt_flag
              THEN /\ stepper_active' = FALSE
                   /\ pc' = "loop"
                   /\ UNCHANGED <<rot, g_flagAtCall, g_observed, g_chunks, g_slept>>
              ELSE /\ rot' = ControlSteppersBegin
                   /\ GhostBegin
                   /\ pc' = "loop"
                   /\ stepper_active' = stepper_active
       ELSE /\ pc' = "loop"
            /\ UNCHANGED <<stepper_active, rot, g_flagAtCall, g_observed,
                           g_chunks, g_slept>>
  /\ UNCHANGED <<motors, stepper_interrupt_flag, uart_buffer, lora_initialized,
                 response, msg, snd, envVars, recvGhost>>

\* run.c:516-525: the loop steps the motors while the active state is latched
MainActive ==
  /\ pc = "active"
  /\ IF stepper_active
       THEN IF stepper_interrupt_flag
              THEN /\ stepper_active' = FALSE
                   /\ pc' = "loop"
                   /\ UNCHANGED <<rot, g_flagAtCall, g_observed, g_chunks, g_slept>>
              ELSE /\ rot' = ControlSteppersBegin
                   /\ GhostBegin
                   /\ pc' = "main_rotating"
                   /\ stepper_active' = stepper_active
       ELSE /\ pc' = "loop"
            /\ UNCHANGED <<stepper_active, rot, g_flagAtCall, g_observed,
                           g_chunks, g_slept>>
  /\ UNCHANGED <<motors, stepper_interrupt_flag, uart_buffer, lora_initialized,
                 response, msg, snd, envVars, recvGhost>>

\* run.c:527-541: control_steppers has returned
MainRotated ==
  /\ pc = "main_rotating"
  /\ ~RotRunning
  /\ stepper_active' = IF stepper_interrupt_flag THEN FALSE ELSE stepper_active
  /\ pc' = "loop"
  /\ UNCHANGED <<motors, stepper_interrupt_flag, rot, uart_buffer,
                 lora_initialized, response, msg, snd, envVars, recvGhost>>

\* lora.c:716-734: the loop of uart_rx_interrupt_handler over the bytes the
\* UART holds.  A byte the ring buffer refuses is lost and ends the loop; the
\* interrupt is still pending then and the handler runs again at once, so
\* every byte of the burst is offered to uart_buffer_put before the main
\* context continues.  ok: no byte was refused.
RECURSIVE IsrPutAll(_, _)
IsrPutAll(b, burst) ==
  IF burst = <<>>
    THEN [buf |-> b, ok |-> TRUE]
    ELSE LET r == IsrPutAll(uart_buffer_put(b, Head(burst)), Tail(burst))
         IN  [buf |-> r.buf, ok |-> PutAccepts(b) /\ r.ok]

\* lora.c:710-735: the receive interrupt.  It may run between any two steps
\* of the main context.
uart_rx_interrupt_handler ==
  /\ wire # <<>>
  /\ LET r == IsrPutAll(uart_buffer, Head(wire))
         n == Len(Head(wire))
     IN  /\ uart_buffer' = r.buf
         /\ IF g_rx.left = 0
              THEN UNCHANGED <<g_rx, g_off_pending>>
              ELSE IF g_rx.left > n
                THEN /\ g_rx' = [g_rx EXCEPT !.left = g_rx.left - n,
                                             !.intact = g_rx.intact /\ r.ok]
                     /\ UNCHANGED g_off_pending
                ELSE /\ g_rx' = RxIdle
                     /\ g_off_pending' =
                          (g_off_pending
                             \/ (/\ g_rx.kind = "OFF"
                                 /\ g_rx.intact /\ r.ok
                                 /\ stepper_active))
  /\ wire' = Tail(wire)
  /\ UNCHANGED <<motors, stepper_interrupt_flag, rot, pc, lora_initialized,
                 stepper_active, response, msg, snd, reply_due, sent,
                 hbranch, hlog, hsnap, g_off_returned>>

\* Where a notification line may be cut into two bursts (0: one burst).
CutAt == 10
SplitPoints == {0, CutAt}

Bursts(line, cut) ==
  IF cut = 0 \/ cut >= Len(line)
    THEN <<line>>
    ELSE <<SubSeq(line, 1, cut), SubSeq(line, cut + 1, Len(line))>>

\* The radio module reports a received message: the notification line,
\* terminated by CR LF, arrives in one or two bursts.
EnvNotify ==
  /\ sent < MaxMsgs
  /\ wire = <<>>
  /\ \E kind \in NotifyKinds, cut \in SplitPoints :
       /\ wire' = Bursts(NotifyLine(kind) \o <<CR, LF>>, cut)
       /\ g_rx' = [kind |-> kind, left |-> Len(NotifyLine(kind)) + 2,
                   intact |-> TRUE]
  /\ sent' = sent + 1
  /\ UNCHANGED <<motors, stepper_interrupt_flag, rot, uart_buffer, pc,
                 lora_initialized, stepper_active, response, msg, snd,
                 reply_due, hbranch, hlog, hsnap, g_off_pending, g_off_returned>>

\* The radio module answers the command it was sent.
EnvReply ==
  /\ reply_due
  /\ reply_due' = FALSE
  /\ wire' = Append(wire, LineOk \o <<CR, LF>>)
  /\ UNCHANGED <<motors, stepper_interrupt_flag, rot, uart_buffer, pc,
                 lora_initialized, stepper_active, response, msg, snd, sent,
                 recvGhost>>

\* run.c:28
STEPPER_DELAY_MS == 1

\* run.c:411-419 and 429-496: the state when the main loop is entered
Init ==
  /\ motors = [k \in Motors |-> stepper_init(STEPPER_DELAY_MS)]
  /\ stepper_interrupt_flag = FALSE
  /\ rot = RotIdle
  /\ g_flagAtCall = FALSE
  /\ g_observed = FALSE
  /\ g_chunks = 0
  /\ g_slept = 0
  /\ g_lastop = "init"
  /\ g_held = [k \in Motors |-> -1]
  /\ g_calls = 0
  /\ uart_buffer = EmptyBuffer(RecvRingSize)
  /\ rb = RbStart
  /\ gp = GpIdle
  /\ pf = PfIdle
  /\ api = ApiIdle
  /\ ln = LnIdle
  /\ pc = "loop"
  /\ lora_initialized \in BOOLEAN
  /\ stepper_active = FALSE
  /\ response = <<>>
  /\ msg = ZeroMessage
  /\ snd = "none"
  /\ wire = <<>>
  /\ reply_due = FALSE
  /\ sent = 0
  /\ hbranch = "none"
  /\ hlog = <<>>
  /\ hsnap = NoSnap
  /\ g_rx = RxIdle
  /\ g_off_pending = FALSE
  /\ g_off_returned = FALSE
  /\ at = AtIdle

\* The variables the stepping engine never touches.
engRest == <<uart_buffer, rb, gp, ln, pf, api, recvVars>>
\* The variables the receiver's own steps never touch.
recvRest == <<g_flagAtCall, g_observed, g_chunks, g_slept, g_lastop, g_held,
              g_calls, rb, gp, ln, pf, api, at>>
\* The same, for the steps of send_at_command that set its result.
recvRestAt == <<g_flagAtCall, g_observed, g_chunks, g_slept, g_lastop, g_held,
                g_calls, rb, gp, ln, pf, api>>
\* The same, for the two steps that start a stepping call.
recvRestCall == <<g_lastop, g_held, g_calls, rb, gp, ln, pf, api, at>>

Next ==
  \/ MainLoopTop /\ UNCHANGED recvRest
  \/ RecvGetLine /\ UNCHANGED recvRest
  \/ RecvClassify /\ UNCHANGED recvRest
  \/ OnClear /\ UNCHANGED recvRest
  \/ OnEnable /\ UNCHANGED recvRest
  \/ OnControl /\ UNCHANGED recvRestCall
  \/ OnAck /\ UNCHANGED recvRest
  \/ OffSet /\ UNCHANGED recvRest
  \/ OffStop /\ UNCHANGED recvRest
  \/ UnknownAck /\ UNCHANGED recvRest
  \/ SendInitHead /\ UNCHANGED recvRest
  \/ SendInitTail /\ UNCHANGED recvRest
  \/ SendInitOvf /\ UNCHANGED recvRest
  \/ SendTx /\ UNCHANGED recvRestAt
  \/ WaitPoll /\ UNCHANGED recvRestAt
  \/ WaitTimeout /\ UNCHANGED recvRestAt
  \/ Expire /\ UNCHANGED recvRestAt
  \/ HandlerReturn /\ UNCHANGED recvRestAt
  \/ MainActive /\ UNCHANGED recvRestCall
  \/ MainRotated /\ UNCHANGED recvRest
  \/ RotCheck /\ UNCHANGED engRest
  \/ RotAdvance /\ UNCHANGED engRest
  \/ RotDelayCond /\ UNCHANGED engRest
  \/ RotSleep /\ UNCHANGED engRest
  \/ RotPost /\ UNCHANGED engRest
  \/ uart_rx_interrupt_handler /\ UNCHANGED recvRest
  \/ EnvNotify /\ UNCHANGED recvRest
  \/ EnvReply /\ UNCHANGED recvRest

Spec == Init /\ [][Next]_vars

(***************************************************************************)
(* Properties of the receiver, checked under Spec.                          *)
(***************************************************************************)
IsPrefixOf(a, b) == Len(a) <= Len(b) /\ SubSeq(b, 1, Len(a)) = a

\* Every motor is disabled with its four outputs at 0.
AllStopped == \A k \in Motors : ~motors[k].enabled /\ motors[k].pins = AllLow

\* Nothing is left to act on: no byte in flight or in the ring buffer, no
\* reply or notification to come, and the main loop is at its top.
Quiescent ==
  /\ wire = <<>>
  /\ ~reply_due
  /\ sent = MaxMsgs
  /\ ~GetHasByte(uart_buffer)
  /\ pc = "loop"

\* C1: when a whole OFF notification line was delivered to the ring buffer
\* while the motors were active, the receiver ends up with the flag set and
\* every motor stopped: once nothing is left to act on, that is the state.
C1_OffAlwaysStops ==
  g_off_pending /\ Quiescent => stepper_interrupt_flag /\ AllStopped

\* The ON branch's steps in order.
OnOrder ==
  <<"clear_interrupt", "enable_all", "control_steppers", "control_returned",
    "STEPPERS_ON">>

OffOrder == <<"set_interrupt", "emergency_stop_all", "STEPPERS_OFF">>

\* C8: the OFF branch sets the flag, then stops and disables every motor,
\* then sends STEPPERS_OFF; during the whole acknowledgment exchange the
\* flag is set and every motor is stopped.
C8_OffOrder ==
  hbranch = "off"
    => /\ IsPrefixOf(hlog, OffOrder)
       /\ Len(hlog) >= 1 => stepper_interrupt_flag /\ ~stepper_active
       /\ Len(hlog) >= 2 => AllStopped
       /\ snd = "STEPPERS_OFF" => /\ stepper_interrupt_flag
                                  /\ AllStopped
                                  /\ Len(hlog) >= 2
       /\ ~RotRunning

\* The handler found the motors active and enabled, and is waiting for the
\* module's reply to STEPPERS_OFF.
C8_Witness ==
  /\ hbranch = "off"
  /\ hlog = OffOrder
  /\ pc = "wait"
  /\ reply_due
  /\ hsnap.active
  /\ ~hsnap.flag
  /\ \A k \in Motors : hsnap.motors[k].enabled

\* C5: once the OFF branch has returned the flag stays set until the ON
\* branch runs, and the flag is cleared by the ON branch only.
C5_FlagStaysSet ==
  /\ [](g_off_returned => stepper_interrupt_flag)
  /\ [][stepper_interrupt_flag /\ ~stepper_interrupt_flag'
          => pc = "on_clear" /\ hbranch = "on"]_vars

\* After the OFF branch returned, another message was received and answered
\* by the else branch, and the main loop went on.
C5_Witness ==
  /\ g_off_returned
  /\ stepper_interrupt_flag
  /\ sent = MaxMsgs
  /\ hbranch = "unknown"
  /\ pc = "handler_ret"

\* C9: for a payload that is neither an activation nor a deactivation, the
\* handler sends UNKNOWN_COMMAND only, and the flag, stepper_active and the
\* motors stay as they were at its entry.
C9_UnknownFrame ==
  hbranch = "unknown"
    => /\ stepper_interrupt_flag = hsnap.flag
       /\ stepper_active = hsnap.active
       /\ motors = hsnap.motors
       /\ ~RotRunning
       /\ IsPrefixOf(hlog, <<"UNKNOWN_COMMAND">>)
       /\ pc \in {"wait_first", "wait", "handler_ret"}
            => hlog = <<"UNKNOWN_COMMAND">>

\* The handler, entered with the motors active, enabled and moved, has sent
\* UNKNOWN_COMMAND for the payload "X" and is about to return.
C9_Witness ==
  /\ hbranch = "unknown"
  /\ msg.payload = <<"X">>
  /\ hlog = <<"UNKNOWN_COMMAND">>
  /\ pc = "handler_ret"
  /\ hsnap.active
  /\ stepper_active
  /\ \A k \in Motors : motors[k].enabled /\ motors[k].current_step # 0

\* The step is a run of the receive interrupt handler.
IsrStep == wire # <<>> /\ wire' = Tail(wire)

\* C13: head is written by the interrupt handler only and tail by the main
\* context only: every step that changes head is a run of the interrupt
\* handler, and no run of the interrupt handler changes tail.
C13_SingleWriter ==
  /\ [][uart_buffer'.head # uart_buffer.head => IsrStep]_vars
  /\ [][uart_buffer'.tail # uart_buffer.tail => ~IsrStep]_vars

(***************************************************************************)
(* The stepping engine alone (stepper.c): a caller makes up to MaxCalls     *)
(* calls of the motor functions, one after the other, and the interrupt     *)
(* flag may be raised at any moment of a call.  The receiver is at rest.    *)
(***************************************************************************)
RecvAtRest ==
  /\ pc = "loop"
  /\ lora_initialized = FALSE
  /\ stepper_active = FALSE
  /\ response = <<>>
  /\ msg = ZeroMessage
  /\ snd = "none"
  /\ wire = <<>>
  /\ reply_due = FALSE
  /\ sent = 0
  /\ hbranch = "none"
  /\ hlog = <<>>
  /\ hsnap = NoSnap
  /\ g_rx = RxIdle
  /\ g_off_pending = FALSE
  /\ g_off_returned = FALSE
  /\ at = AtIdle

EngineInit == EngInit /\ RingInit /\ RecvAtRest

EngNext ==
  \/ EngRotateMultiple /\ UNCHANGED engRest
  \/ EngMoveSteps /\ UNCHANGED engRest
  \/ EngRotateDegrees /\ UNCHANGED engRest
  \/ EngEnable /\ UNCHANGED engRest
  \/ EngDisable /\ UNCHANGED engRest
  \/ EngEmergencyStopAll /\ UNCHANGED engRest
  \/ EngSetInterrupt /\ UNCHANGED engRest
  \/ EngClearInterrupt /\ UNCHANGED engRest
  \/ RotCheck /\ UNCHANGED engRest
  \/ RotAdvance /\ UNCHANGED engRest
  \/ RotDelayCond /\ UNCHANGED engRest
  \/ RotSleep /\ UNCHANGED engRest
  \/ RotPost /\ UNCHANGED engRest

SpecEngine == EngineInit /\ [][EngNext]_vars

(***************************************************************************)
(* Properties of the stepping engine, checked under SpecEngine.            *)
(***************************************************************************)
\* C2: once the flag is set during a stepping call, the call sleeps at most
\* one more 1-unit chunk, and from the first read of the flag as set no
\* motor changes, no chunk is slept, and the next step of the call returns.
C2_CancelWithinOneChunk ==
  /\ [](g_chunks <= 1)
  /\ [](RotRunning /\ g_observed => rot.pc = "post")
  /\ [][RotRunning /\ g_observed
          => motors' = motors /\ g_slept' = g_slept /\ rot'.pc = "idle"]_vars

\* A multi-motor call over all motors read the flag, raised after the call
\* began, as set, after sleeping one chunk with the flag set and with steps
\* still to go.
C2_Witness ==
  /\ rot.kind = "multi"
  /\ Len(rot.arr) = NumMotors
  /\ rot.pc = "post"
  /\ rot.step + 1 < rot.steps
  /\ rot.remaining > 0
  /\ g_observed
  /\ ~g_flagAtCall
  /\ g_chunks = 1

\* C3: a stepping call (stepper_rotate_multiple_degrees or stepper_move_steps)
\* that begins with the flag set stays at its entry, changes no motor, sleeps
\* no chunk, and returns at its first step; this is so for every call, until
\* the flag is cleared.
C3_FlagSetNoOp ==
  /\ [](RotRunning /\ g_flagAtCall
          => rot.pc = "check" /\ rot.step = 0 /\ g_slept = 0)
  /\ [][RotRunning /\ g_flagAtCall
          => motors' = motors /\ g_slept' = g_slept /\ rot'.pc = "idle"]_vars

\* The second of two calls made with the flag set, a multi-motor call for a
\* positive number of steps on an enabled motor, has returned.
C3_Witness ==
  /\ g_flagAtCall
  /\ g_observed
  /\ ~RotRunning
  /\ g_calls = MaxCalls
  /\ g_lastop = "rotate_multiple"
  /\ \E k \in Motors : motors[k].enabled
  /\ g_slept = 0

\* C4: when stepper_emergency_stop_all has returned, every motor has its
\* four outputs at 0 and enabled = false, whatever the flag and the motors
\* were; it slept no chunk and left no call in progress.
C4_EmergencyStopAll ==
  g_lastop = "emergency_stop_all"
    => /\ \A k \in Motors : motors[k].pins = AllLow /\ ~motors[k].enabled
       /\ ~RotRunning
       /\ g_slept = 0

\* The stop came with the flag set, on motors a call had moved.
C4_Witness ==
  /\ g_lastop = "emergency_stop_all"
  /\ stepper_interrupt_flag
  /\ \E k \in Motors : motors[k].current_step # 0
  /\ \A k \in Motors : ~motors[k].enabled

\* C6: a motor stopped by stepper_emergency_stop_all stays disabled, with
\* the current_step it had and its outputs at 0, through every stepping call,
\* until stepper_enable is called on it.
C6_NoImplicitEnable ==
  \A k \in Motors :
    g_held[k] # -1
      => /\ ~motors[k].enabled
         /\ motors[k].pins = AllLow
         /\ motors[k].current_step = g_held[k]

\* After the stop, with the flag clear, a multi-motor call holding the
\* stopped motor 1 has gone through a whole step.
C6_Witness ==
  /\ g_lastop = "rotate_multiple"
  /\ rot.kind = "multi"
  /\ rot.step >= 1
  /\ \E i \in DOMAIN rot.arr : rot.arr[i] = 1
  /\ g_held[1] # -1
  /\ ~stepper_interrupt_flag

(***************************************************************************)
(* The ring buffer alone (lora.c:633-670): puts, gets and re-initialisation *)
(* in any order on a buffer of RingSize slots.                              *)
(***************************************************************************)
ringRest == <<engVars, recvVars, gp, ln, pf, api>>

RingOnlyInit == RingInit /\ EngInit /\ RecvAtRest

RingNext ==
  \/ RingPut /\ UNCHANGED ringRest
  \/ RingGet /\ UNCHANGED ringRest
  \/ RingInitOp /\ UNCHANGED ringRest

SpecRing == RingOnlyInit /\ [][RingNext]_vars

(***************************************************************************)
(* Properties of the ring buffer, checked under SpecRing.                   *)
(***************************************************************************)
\* C10: when at most capacity - 1 bytes were put into the empty buffer and
\* then only gets follow, the gets return those bytes in the order they were
\* put, get reports empty only once all of them were returned, and the
\* buffer is empty then.
C10_RingFifo ==
  rb.pure /\ Len(rb.offered) <= BufSize(uart_buffer) - 1
    => /\ IsPrefixOf(rb.taken, rb.offered)
       /\ rb.lastget = "empty" => rb.taken = rb.offered
       /\ rb.taken = rb.offered => ~GetHasByte(uart_buffer)
       /\ rb.taken # rb.offered => GetHasByte(uart_buffer)

\* Capacity - 1 bytes, not all the same, were put from a position that makes
\* the indices wrap, were all read back, and one more get reported empty.
C10_Witness ==
  /\ rb.pure
  /\ Len(rb.offered) = BufSize(uart_buffer) - 1
  /\ rb.taken = rb.offered
  /\ rb.lastget = "empty"
  /\ \E i, j \in DOMAIN rb.offered : rb.offered[i] # rb.offered[j]
  /\ uart_buffer.head < BufSize(uart_buffer) - 1

\* C11: after any sequence of init, put and get, head and tail are in
\* 0..C-1, the number of stored bytes is what uart_buffer_available returns
\* and lies in 0..C-1, and the buffer is empty exactly when head = tail.
C11_RingInvariant ==
  /\ uart_buffer.head \in 0..(BufSize(uart_buffer) - 1)
  /\ uart_buffer.tail \in 0..(BufSize(uart_buffer) - 1)
  /\ uart_buffer_available(uart_buffer) = rb.count
  /\ rb.count \in 0..(BufSize(uart_buffer) - 1)
  /\ rb.count = 0 <=> uart_buffer.head = uart_buffer.tail
  /\ GetHasByte(uart_buffer) <=> rb.count > 0

\* The buffer holds C-1 bytes across the wrap of the indices and has just
\* refused one more.
C11_Witness ==
  /\ rb.count = BufSize(uart_buffer) - 1
  /\ rb.op = "put"
  /\ rb.lastput = "full"
  /\ uart_buffer.head < uart_buffer.tail

\* C12: a put on a full buffer returns false, sets overflow and changes
\* nothing else; overflow, once set, stays set through every put and get and
\* is reset by uart_buffer_init only.
C12_OverflowSticky ==
  /\ [][rb'.op = "put" /\ ~PutAccepts(uart_buffer)
          => /\ uart_buffer' = [uart_buffer EXCEPT !.overflow = TRUE]
             /\ rb'.lastput = "full"
             /\ rb'.count = rb.count]_vars
  /\ [][uart_buffer.overflow /\ rb'.op # "init" => uart_buffer'.overflow]_vars
  /\ [](rb.op = "init" => ~uart_buffer.overflow)

\* With overflow set earlier, gets made room and a later put was accepted:
\* overflow is still set.
C12_Witness ==
  /\ uart_buffer.overflow
  /\ rb.op = "put"
  /\ rb.lastput = "ok"
  /\ rb.count >= 1


(***************************************************************************)
(* The consumer preempted by the producer (SpecConc).  uart_buffer_get     *)
(* runs in the main context one statement at a time (the test of line 657, *)
(* the read of line 662, the store to tail of line 663); the receive       *)
(* interrupt runs uart_buffer_put to completion between any two of them.   *)
(* uart_buffer_get_line touches the buffer only through uart_buffer_get,   *)
(* so its preemption points are those of the calls it makes.  head and     *)
(* tail are volatile and buffer[] is not: the build may place the read of  *)
(* buffer[tail] before or after the store to tail, and both orders are     *)
(* behaviours of the model.                                                *)
(* rb.offered are the bytes passed to put, rb.taken the bytes returned.    *)
(***************************************************************************)
\* The number of bytes the interrupt handler offers in one behaviour.
MaxPuts == 6

\* lora.c:640-653 called from lora.c:729: the interrupt stores one byte
ConcPut ==
  \E c \in RingBytes :
    /\ Len(rb.offered) < MaxPuts
    /\ uart_buffer' = uart_buffer_put(uart_buffer, c)
    /\ rb' = [rb EXCEPT !.offered = Append(rb.offered, c),
                        !.lastput = IF PutAccepts(uart_buffer) THEN "ok" ELSE "full",
                        !.op = "put"]
    /\ gp' = [gp EXCEPT !.preempted = gp.preempted \/ gp.pc # "idle"]

\* lora.c:657-660: the test for an empty buffer
ConcGetTest ==
  /\ gp.pc = "idle"
  /\ gp' = [pc |-> IF GetHasByte(uart_buffer) THEN "read" ELSE "idle",
            c |-> gp.c, preempted |-> FALSE]
  /\ rb' = [rb EXCEPT !.lastget = IF GetHasByte(uart_buffer)
                                    THEN rb.lastget ELSE "empty",
                      !.op = "get"]
  /\ UNCHANGED uart_buffer

\* lora.c:662: the byte at tail is copied out
ConcGetRead ==
  /\ gp.pc = "read"
  /\ gp' = [gp EXCEPT !.pc = "advance", !.c = GetByte(uart_buffer)]
  /\ UNCHANGED <<uart_buffer, rb>>

\* lora.c:663-664: tail advances and the call returns the byte
ConcGetAdvance ==
  /\ gp.pc = "advance"
  /\ uart_buffer' = [uart_buffer EXCEPT
                       !.tail = (uart_buffer.tail + 1) % BufSize(uart_buffer)]
  /\ rb' = [rb EXCEPT !.taken = Append(rb.taken, gp.c), !.lastget = "ok",
                      !.op = "get"]
  /\ gp' = [gp EXCEPT !.pc = "idle"]

\* lora.c:663: the store to tail, placed before the read of line 662
ConcGetAdvanceEarly ==
  /\ gp.pc = "read"
  /\ uart_buffer' = [uart_buffer EXCEPT
                       !.tail = (uart_buffer.tail + 1) % BufSize(uart_buffer)]
  /\ gp' = [gp EXCEPT !.pc = "late"]
  /\ UNCHANGED rb

\* lora.c:662, 664: the slot tail has left is copied out and the call returns
ConcGetReadLate ==
  /\ gp.pc = "late"
  /\ LET c == uart_buffer.buffer[(uart_buffer.tail + BufSize(uart_buffer) - 1)
                                   % BufSize(uart_buffer)]
     IN  /\ rb' = [rb EXCEPT !.taken = Append(rb.taken, c), !.lastget = "ok",
                             !.op = "get"]
         /\ gp' = [gp EXCEPT !.pc = "idle", !.c = c]
  /\ UNCHANGED uart_buffer

concRest == <<engVars, recvVars, ln, pf, api>>

ConcInit == RingInit /\ EngInit /\ RecvAtRest

ConcNext ==
  \/ ConcPut /\ UNCHANGED concRest
  \/ ConcGetTest /\ UNCHANGED concRest
  \/ ConcGetRead /\ UNCHANGED concRest
  \/ ConcGetAdvance /\ UNCHANGED concRest
  \/ ConcGetAdvanceEarly /\ UNCHANGED concRest
  \/ ConcGetReadLate /\ UNCHANGED concRest

SpecConc == ConcInit /\ [][ConcNext]_vars

\* C14: with the interrupt handler running uart_buffer_put between any two
\* statements of uart_buffer_get, and while no put was refused (no overflow)
\* and the buffer is never cleared, the bytes get has returned are a prefix
\* of the bytes put, and a byte copied out but not yet returned is the next
\* byte of that sequence: nothing is duplicated, reordered, skipped or read
\* before it was written.
C14_ConcurrentFifo ==
  ~uart_buffer.overflow =>
    /\ IsPrefixOf(rb.taken, rb.offered)
    /\ gp.pc = "advance" =>
          /\ Len(rb.taken) < Len(rb.offered)
          /\ gp.c = rb.offered[Len(rb.taken) + 1]
    /\ Len(rb.offered) - Len(rb.taken) =
         uart_buffer_available(uart_buffer) + (IF gp.pc = "late" THEN 1 ELSE 0)

\* A get that the interrupt preempted has returned its byte, after the
\* indices wrapped, with no overflow.
C14_Witness ==
  /\ gp.pc = "idle" /\ gp.preempted /\ rb.lastget = "ok"
  /\ ~uart_buffer.overflow
  /\ Len(rb.taken) >= RingSize
  /\ Len(rb.offered) = MaxPuts
(***************************************************************************)
(* The line reader on a preloaded buffer (SpecLine).  The buffer starts    *)
(* holding ln.input, stored by uart_buffer_put from an index where the     *)
(* contents may wrap; each step is one call uart_buffer_get_line(buffer,   *)
(* line, ln.max_len) with nothing newly queued.  ln.lines are the lines    *)
(* returned, ln.last the last return value, ln.pos the number of bytes the *)
(* calls have taken out of the buffer.                                     *)
(***************************************************************************)
\* The longest input preloaded.
MaxInput == 5
\* The small destination size (the other is larger than every input).
SmallLen == 3

LineBytes == {"A", "B", CR, LF}
LineInputs == UNION {[1..n -> LineBytes] : n \in 0..MaxInput}
LineMaxLens == {SmallLen, MaxInput + 2}
LineOffsets == {0, MaxInput}

\* lora.c:640-653: the bytes of s stored one after the other
RECURSIVE Preload(_, _)
Preload(b, s) ==
  IF s = <<>>
    THEN b
    ELSE CHOOSE res \in {Preload(nb, Tail(s)) :
                           nb \in {uart_buffer_put(b, Head(s))}} : TRUE

\* lora.c:672-707: one call of uart_buffer_get_line by the consumer
LineGet ==
  LET r == uart_buffer_get_line(uart_buffer, ln.max_len)
  IN  /\ uart_buffer' = r.buf
      /\ ln' = [ln EXCEPT
                  !.lines = IF r.ok THEN Append(ln.lines, r.line) ELSE ln.lines,
                  !.last = IF r.ok THEN "line" ELSE "none",
                  !.pos = ln.pos + uart_buffer_available(uart_buffer)
                                 - uart_buffer_available(r.buf)]

lineRest == <<engVars, recvVars, rb, gp, pf, api>>

LineInit ==
  /\ EngInit /\ RecvAtRest
  /\ rb = RbStart
  /\ gp = GpIdle
  /\ pf = PfIdle
  /\ api = ApiIdle
  /\ \E input \in LineInputs, max_len \in LineMaxLens, off \in LineOffsets :
       /\ ln = [LnIdle EXCEPT !.input = input, !.max_len = max_len]
       /\ uart_buffer =
            Preload([EmptyBuffer(MaxInput + 1) EXCEPT !.head = off, !.tail = off],
                    input)

LineNext == LineGet /\ UNCHANGED lineRest

SpecLine == LineInit /\ [][LineNext]_vars

IsTerm(c) == c = CR \/ c = LF
NotTerm(c) == ~IsTerm(c)
\* The bytes of s that are not terminators.
Strip(s) == SelectSeq(s, NotTerm)
\* The lines of s one after the other.
RECURSIVE Concat(_)
Concat(ss) == IF ss = <<>> THEN <<>> ELSE Head(ss) \o Concat(Tail(ss))
\* The number of terminators s starts with.
RECURSIVE LeadTerms(_)
LeadTerms(s) ==
  IF s # <<>> /\ IsTerm(Head(s)) THEN 1 + LeadTerms(Tail(s)) ELSE 0
\* The number of non-terminators s starts with.
RECURSIVE LeadText(_)
LeadText(s) ==
  IF s # <<>> /\ NotTerm(Head(s)) THEN 1 + LeadText(Tail(s)) ELSE 0
\* s without its first n elements.
Drop(s, n) == SubSeq(s, n + 1, Len(s))
\* The non-empty maximal runs of non-terminators of s, in order.
RECURSIVE LinesOf(_)
LinesOf(s) ==
  LET t == Drop(s, LeadTerms(s))
      n == LeadText(t)
  IN  IF t = <<>> THEN <<>> ELSE <<SubSeq(t, 1, n)>> \o LinesOf(Drop(t, n))
\* s is made of terminated lines and runs of terminators.
Terminated(s) == s = <<>> \/ IsTerm(s[Len(s)])
\* The part of the input no call has taken yet.
LineRest == Drop(ln.input, ln.pos)
\* max_len is larger than every line of the input.
Ample == ln.max_len = MaxInput + 2

\* C15: on a buffer preloaded with terminated lines and runs of terminators,
\* with max_len larger than every line, the successive calls return exactly
\* the non-empty lines in order, one per call: every call that returns a
\* line returns the next line of the input, a call returns no line only when
\* every line was returned and then the buffer is empty, and no line
\* returned is empty or contains a CR or LF.
C15_TerminatedLines ==
  /\ [](Ample /\ Terminated(ln.input) =>
          /\ IsPrefixOf(ln.lines, LinesOf(ln.input))
          /\ \A i \in 1..Len(ln.lines) :
               /\ ln.lines[i] # <<>>
               /\ \A k \in 1..Len(ln.lines[i]) : NotTerm(ln.lines[i][k])
          /\ ln.last = "none" =>
               /\ ln.lines = LinesOf(ln.input)
               /\ ~GetHasByte(uart_buffer))
  /\ [][Ample /\ Terminated(ln.input) /\ Len(ln.lines) < Len(LinesOf(ln.input))
          => /\ ln'.last = "line"
             /\ ln'.lines = Append(ln.lines, LinesOf(ln.input)[Len(ln.lines) + 1])]_vars

\* Two lines were returned from an input with repeated terminators stored
\* across the end of the array, and the call after them returned no line.
C15_Witness ==
  /\ Ample /\ Len(ln.input) = MaxInput
  /\ Terminated(ln.input)
  /\ \E i \in 1..(MaxInput - 1) : IsTerm(ln.input[i]) /\ IsTerm(ln.input[i + 1])
  /\ Len(ln.lines) = 2
  /\ ln.last = "none"
  /\ uart_buffer.head = MaxInput - 1
\* The input is an unterminated fragment shorter than max_len - 1.
Fragment ==
  /\ ln.input # <<>>
  /\ \A i \in 1..Len(ln.input) : NotTerm(ln.input[i])
  /\ Len(ln.input) < ln.max_len - 1

\* C16: when the buffer holds only an unterminated fragment shorter than
\* max_len - 1, the first call returns the fragment as a line and leaves the
\* buffer empty; every further call, with nothing newly queued, returns no
\* line and changes nothing; the fragment is returned exactly once.
C16_PartialOnce ==
  /\ [][Fragment /\ ln.last = "idle"
          => /\ ln'.last = "line"
             /\ ln'.lines = <<ln.input>>
             /\ uart_buffer'.head = uart_buffer'.tail]_vars
  /\ [][Fragment /\ ln.last # "idle"
          => /\ ln'.last = "none"
             /\ ln'.lines = ln.lines
             /\ uart_buffer' = uart_buffer]_vars
  /\ [](Fragment /\ ln.last # "idle" => ln.lines = <<ln.input>>)

\* The fragment, stored across the end of the array, was returned and the
\* call after it returned no line.
C16_Witness ==
  /\ Fragment /\ Len(ln.input) = MaxInput
  /\ ln.lines = <<ln.input>>
  /\ ln.last = "none"
  /\ uart_buffer.head = MaxInput - 1
\* The bytes a call may collect.
Room == ln.max_len - 1
\* After its leading terminators, the rest of the input starts with a line
\* longer than max_len - 1.
LongLineNext == LeadText(Drop(LineRest, LeadTerms(LineRest))) > Room

\* C17: when the next line in the buffer is longer than max_len - 1, the call
\* returns exactly its first max_len - 1 bytes and takes no byte beyond them
\* out of the buffer; a returned line with its terminating NUL never exceeds
\* max_len bytes; and no byte is discarded: the lines returned so far, put
\* end to end, are the non-terminator bytes taken out of the buffer, so the
\* following calls return the remaining bytes of the line.
C17_LongLine ==
  /\ [][LongLineNext
          => LET k == LeadTerms(LineRest)
             IN  /\ ln'.last = "line"
                 /\ ln'.lines = Append(ln.lines,
                                       SubSeq(LineRest, k + 1, k + Room))
                 /\ ln'.pos = ln.pos + k + Room
                 /\ uart_buffer_available(uart_buffer') =
                      uart_buffer_available(uart_buffer) - k - Room]_vars
  /\ [](\A i \in 1..Len(ln.lines) : Len(ln.lines[i]) + 1 <= ln.max_len)
  /\ [](Concat(ln.lines) = Strip(SubSeq(ln.input, 1, ln.pos)))
  /\ [](ln.last = "none" => ln.pos = Len(ln.input))

\* A line of MaxInput bytes was returned in pieces by the reader with the
\* small destination.
C17_Witness ==
  /\ ln.max_len = SmallLen
  /\ Len(ln.input) = MaxInput
  /\ \A i \in 1..MaxInput : NotTerm(ln.input[i])
  /\ Len(ln.lines) >= 2
  /\ Len(ln.lines[1]) = Room
  /\ Concat(ln.lines) = ln.input
  /\ ln.last = "none"
(***************************************************************************)
(* One call of send_at_command (SpecSend).  The call starts with bytes of  *)
(* earlier traffic in the ring buffer (STALE and LF, stored where the      *)
(* contents may wrap) and possibly one byte of other traffic still on its  *)
(* way (NOISE), which the interrupt stores at any point of the call.  The  *)
(* module answers the command with one line "+OK" CR LF, which reaches the *)
(* interrupt handler whole or cut in two at any place.  The call clears    *)
(* the buffer (three stores), transmits, and polls until a line is read or *)
(* the deadline has passed.                                                *)
(***************************************************************************)
\* The capacity of the ring during one call.
SendRingSize == 8
\* The most bytes of earlier traffic in the ring when the call starts.
MaxStale == 3

STALE == "S"
NOISE == "N"
StaleInputs == UNION {[1..n -> {STALE, LF}] : n \in 0..MaxStale}
SendOffsets == {1, SendRingSize - 2}
ReplyLine == LineOk \o <<CR, LF>>

\* The module's reply arrives in two bursts.
EnvReplyCut ==
  /\ reply_due
  /\ reply_due' = FALSE
  /\ \E cut \in 1..(Len(ReplyLine) - 1) : wire' = wire \o Bursts(ReplyLine, cut)
  /\ UNCHANGED <<motors, stepper_interrupt_flag, rot, uart_buffer, pc,
                 lora_initialized, stepper_active, response, msg, snd, sent,
                 recvGhost>>

SendInit ==
  /\ EngInit
  /\ rb = RbStart
  /\ gp = GpIdle
  /\ pf = PfIdle
  /\ api = ApiIdle
  /\ ln = LnIdle
  /\ \E stale \in StaleInputs, off \in SendOffsets :
       uart_buffer =
         Preload([EmptyBuffer(SendRingSize) EXCEPT !.head = off, !.tail = off],
                 stale)
  /\ pc = "send_init_head"
  /\ lora_initialized = TRUE
  /\ stepper_active = FALSE
  /\ response = <<>>
  /\ msg = ZeroMessage
  /\ snd = "STEPPERS_ON"
  /\ wire \in {<<>>, <<<<NOISE>>>>}
  /\ reply_due = FALSE
  /\ sent = 0
  /\ hbranch = "none"
  /\ hlog = <<>>
  /\ hsnap = NoSnap
  /\ g_rx = RxIdle
  /\ g_off_pending = FALSE
  /\ g_off_returned = FALSE
  /\ at = AtIdle

\* The steps of the main context inside send_at_command.
SendMain ==
  \/ SendInitHead /\ UNCHANGED recvRest
  \/ SendInitTail /\ UNCHANGED recvRest
  \/ SendInitOvf /\ UNCHANGED recvRest
  \/ SendTx /\ UNCHANGED recvRestAt
  \/ WaitPoll /\ UNCHANGED recvRestAt
  \/ WaitTimeout /\ UNCHANGED recvRestAt

SendNext ==
  \/ SendMain
  \/ Expire /\ UNCHANGED recvRestAt
  \/ uart_rx_interrupt_handler /\ UNCHANGED recvRest
  \/ EnvReply /\ UNCHANGED recvRest
  \/ EnvReplyCut /\ UNCHANGED recvRest

SpecSend == SendInit /\ [][SendNext]_vars

\* The main context keeps running and time advances.
SpecSendFair ==
  SpecSend /\ WF_vars(SendMain) /\ WF_vars(Expire /\ UNCHANGED recvRestAt)

\* No byte other than the reply reached the buffer or is on its way.
NoNoise ==
  /\ \A i \in DOMAIN uart_buffer.buffer : uart_buffer.buffer[i] # NOISE
  /\ \A i \in 1..Len(wire) : \A k \in 1..Len(wire[i]) : wire[i][k] # NOISE

\* C18: when the module sends exactly one terminated reply line after the
\* clear and the transmission, and nothing else, the response send_at_command
\* returns with LORA_STATUS_OK is the entire reply line, for every
\* interleaving of the interrupt with the polling.
C18_WholeReply ==
  NoNoise /\ at.status = "OK" => at.response = LineOk
\* The bytes a reader would find in b, from tail to head.
Window(b) ==
  [i \in 1..uart_buffer_available(b) |-> b.buffer[(b.tail + i - 1) % BufSize(b)]]

\* C19: when send_at_command transmits the command the ring buffer has been
\* emptied: overflow is clear and the buffer holds nothing but a byte that
\* arrived during the call (head == tail when none did); and no byte that was
\* in the ring buffer before the call is part of the response, which is made
\* of bytes that arrived during the call, in their order of arrival.
C19_ClearedBeforeSend ==
  /\ [][hlog' # hlog
          => /\ pc = "send_tx"
             /\ ~uart_buffer.overflow
             /\ Window(uart_buffer) \in {<<>>, <<NOISE>>}
             /\ NoNoise => uart_buffer.head = uart_buffer.tail]_vars
  /\ [](\A k \in 1..Len(at.response) : at.response[k] # STALE)
  /\ [](at.status = "OK" => \/ IsPrefixOf(at.response, LineOk)
                             \/ IsPrefixOf(at.response, <<NOISE>> \o LineOk))

\* The call returned the reply although bytes of earlier traffic were queued
\* when it started and are still in the array.
C19_Witness ==
  /\ pc = "handler_ret" /\ at.status = "OK" /\ at.response = LineOk
  /\ \E i \in DOMAIN uart_buffer.buffer : uart_buffer.buffer[i] = STALE
  /\ hlog # <<>>
\* C20: every send_at_command call returns, given that the main context
\* keeps running and time advances; it returns LORA_STATUS_OK only with a
\* non-empty line read before the deadline, and a poll that reads a line
\* returns it; it returns LORA_STATUS_TIMEOUT only once the deadline has
\* passed with no line read; and once the deadline has passed it reads
\* nothing more and its next step is the return of the timeout.
C20_SendTerminates ==
  /\ (pc = "send_init_head") ~> (pc = "handler_ret")
  /\ [](pc = "handler_ret" <=> at.status \in {"OK", "TIMEOUT"})
  /\ [](at.status = "OK" => at.response # <<>> /\ ~at.expired)
  /\ [](at.status = "TIMEOUT" => at.expired /\ at.response = <<>>)
  /\ [][(/\ pc \in {"wait_first", "wait"}
         /\ uart_buffer'.tail # uart_buffer.tail
         /\ uart_buffer_get_line(uart_buffer, SEND_RESPONSE_SIZE).ok)
          => /\ at'.status = "OK"
             /\ at'.response =
                  uart_buffer_get_line(uart_buffer, SEND_RESPONSE_SIZE).line]_vars
  /\ [][at.expired
          => /\ uart_buffer'.tail = uart_buffer.tail
             /\ pc' # pc => at'.status = "TIMEOUT"]_vars

\* The call returned the timeout while the module's reply was still on its
\* way.
C20_Witness ==
  /\ pc = "handler_ret" /\ at.status = "TIMEOUT" /\ at.expired
  /\ hlog # <<>>
  /\ wire # <<>> \/ reply_due
(***************************************************************************)
(* The functions of lora.c that compute a result from a string (SpecPure). *)
(* A behaviour starts with a function and an argument and applies the      *)
(* function once.  An argument is a pointer: null, or a string pf.arg.s.   *)
(***************************************************************************)
\* The longest response text classified.
MaxRespLen == 6

NullStr == [null |-> TRUE, s |-> <<>>]
Str(s) == [null |-> FALSE, s |-> s]

RespBytes == {"+", "E", "R", "O", "K"}
RespInputs ==
  {NullStr} \cup {Str(s) : s \in UNION {[1..n -> RespBytes] : n \in 0..MaxRespLen}}

\* lora.c:604-607 and 609-616: is_response_ok on a pointer
is_response_ok_arg(a) == IF a.null THEN FALSE ELSE is_response_ok(a.s)

PureIsResponseOk ==
  /\ pf.fn = "is_response_ok" /\ ~pf.done
  /\ pf' = [pf EXCEPT !.done = TRUE, !.out = is_response_ok_arg(pf.arg)]

\* The longest payload of a notification.
MaxPayload == 243

\* The decimal digits of a natural number, and of an integer with its sign.
RECURSIVE Dec(_)
Dec(n) ==
  IF n < 10 THEN <<Digits[n + 1]>> ELSE Dec(n \div 10) \o <<Digits[(n % 10) + 1]>>
SDec(n) == IF n < 0 THEN <<"-">> \o Dec(0 - n) ELSE Dec(n)

\* lora.c:560-561: the notification line of the module for the fields f
RcvLine(f) ==
  RCV_PREFIX \o Dec(f.addr) \o <<",">> \o Dec(f.len) \o <<",">>
    \o f.payload \o <<",">> \o SDec(f.rssi)

\* A payload of n bytes without a comma.
Fill(n) == [i \in 1..n |-> IF i % 2 = 1 THEN "a" ELSE "b"]

ParsePayloads ==
  {<<>>, <<"a", "b", "c">>, <<"O", "N">>, <<"1">>, <<"-", "5">>, <<" ", "x">>}
    \cup {Fill(n) : n \in {LORA_MAX_MESSAGE_LENGTH - 1, LORA_MAX_MESSAGE_LENGTH,
                            MaxPayload}}

\* The well-formed notifications: every field present, the address a 16-bit
\* number, the signal strength of magnitude below 256, and the line no longer
\* than uart_buffer_get_line returns into response[RESPONSE_BUFFER_SIZE].
ParseFields ==
  {f \in [addr : {0, 7, 42, 65535}, len : {0, 3, 240, 999},
           payload : ParsePayloads, rssi : {-255, -128, -17, 0, 5}, wf : {TRUE}] :
     Len(RcvLine(f)) <= RESPONSE_BUFFER_SIZE - 1}

\* Lines with the notification prefix and a delimiter missing.
MalformedLines ==
  {RCV_PREFIX,
   RCV_PREFIX \o <<"4", "2">>,
   RCV_PREFIX \o <<"4", "2", ",", "3">>,
   RCV_PREFIX \o <<"4", "2", ",", "3", ",">>,
   RCV_PREFIX \o <<"4", "2", ",", "3", ",", "a", "b", "c">>,
   RCV_PREFIX \o <<"4", "2", ",", "3", ",", "O", "N">>}

\* lora.c:558-600 called at lora.c:289
PureParse ==
  /\ pf.fn = "parse_received_message" /\ ~pf.done
  /\ pf' = [pf EXCEPT !.done = TRUE, !.out = parse_received_message(pf.arg.s)]

\* The longest command text made of arbitrary characters.
MaxCmdLen == 3

CmdBytes == {"O", "o", "N", "n", "F", "f", "1", "0", " "}
CmdWords ==
  {<<"O", "N">>, <<"S", "T", "A", "R", "T">>, <<"M", "O", "V", "E">>, <<"1">>,
   <<"O", "F", "F">>, <<"S", "T", "O", "P">>, <<"H", "A", "L", "T">>, <<"0">>}
\* tolower
ToLower(c) ==
  IF \E i \in 1..26 : UpperCase[i] = c
    THEN LowerCase[CHOOSE i \in 1..26 : UpperCase[i] = c]
    ELSE c
\* The word w in every mix of upper and lower case.
CaseMixes(w) ==
  {[i \in 1..Len(w) |-> IF i \in S THEN ToLower(w[i]) ELSE w[i]] :
     S \in SUBSET (1..Len(w))}
CmdTexts ==
  LET mixes == UNION {CaseMixes(w) : w \in CmdWords}
  IN  UNION {[1..n -> CmdBytes] : n \in 0..MaxCmdLen}
        \cup mixes
        \cup {m \o <<" ">> : m \in mixes}
        \cup {<<" ">> \o m : m \in mixes}
        \cup {m \o m : m \in mixes}
        \cup {SubSeq(m, 1, Len(m) - 1) : m \in mixes}
CmdInputs == {NullStr} \cup {Str(t) : t \in CmdTexts}

\* lora.c:483-486 and 489-492: lora_is_on_command on a pointer
lora_is_on_command_arg(a) == IF a.null THEN FALSE ELSE lora_is_on_command(a.s)
\* lora.c:497-500 and 503-506: lora_is_off_command on a pointer
lora_is_off_command_arg(a) == IF a.null THEN FALSE ELSE lora_is_off_command(a.s)

\* Both classifications of one text, as run.c:134 and 161 apply them
PureCommand ==
  /\ pf.fn = "lora_is_command" /\ ~pf.done
  /\ pf' = [pf EXCEPT !.done = TRUE,
                      !.out = [on |-> lora_is_on_command_arg(pf.arg),
                               off |-> lora_is_off_command_arg(pf.arg)]]

\* The largest angle converted, in eighths of a degree (an eighth is exact
\* in a float).
MaxEighths == 24

\* stepper.c:129 and 188: (uint)((degrees / 360.0f) * STEPS_PER_REVOLUTION)
\* for an angle of e eighths of a degree; the cast truncates.
DegreesToStepsEighths(e) == (e * STEPS_PER_REVOLUTION) \div (8 * 360)

\* stepper.c:129 and 188: the step count computed at the entry of a call
PureSteps ==
  /\ pf.fn = "degrees_to_steps" /\ ~pf.done
  /\ pf' = [pf EXCEPT !.done = TRUE, !.out = DegreesToStepsEighths(pf.arg)]

PureInputs ==
  {[fn |-> "degrees_to_steps", arg |-> e, done |-> FALSE, out |-> FALSE] :
     e \in 0..MaxEighths}
  \cup
  {[fn |-> "lora_is_command", arg |-> a, done |-> FALSE, out |-> FALSE] :
     a \in CmdInputs}
  \cup
  {[fn |-> "is_response_ok", arg |-> a, done |-> FALSE, out |-> FALSE] :
     a \in RespInputs}
  \cup
  {[fn |-> "parse_received_message", arg |-> Str(RcvLine(f)), f |-> f,
    done |-> FALSE, out |-> FALSE] : f \in ParseFields}
  \cup
  {[fn |-> "parse_received_message", arg |-> Str(l), f |-> [wf |-> FALSE],
    done |-> FALSE, out |-> FALSE] : l \in MalformedLines}

pureRest == <<engVars, recvVars, uart_buffer, rb, gp, ln, api>>

PureInit ==
  /\ EngInit /\ RecvAtRest
  /\ uart_buffer = EmptyBuffer(RingSize)
  /\ rb = RbStart
  /\ gp = GpIdle
  /\ ln = LnIdle
  /\ api = ApiIdle
  /\ pf \in PureInputs

PureNext ==
  \/ PureIsResponseOk /\ UNCHANGED pureRest
  \/ PureParse /\ UNCHANGED pureRest
  \/ PureCommand /\ UNCHANGED pureRest
  \/ PureSteps /\ UNCHANGED pureRest

SpecPure == PureInit /\ [][PureNext]_vars

\* p occurs in s.
Occurs(p, s) == \E i \in 1..(Len(s) - Len(p) + 1) : SubSeq(s, i, i + Len(p) - 1) = p
HasErrorMarker(s) ==
  Occurs(<<"+", "E", "R", "R">>, s) \/ Occurs(<<"E", "R", "R", "O", "R">>, s)
HasSuccessMarker(s) == Occurs(<<"O", "K">>, s)

\* C21: is_response_ok returns true exactly when the text holds no error
\* marker ("+ERR", "ERROR") and holds the success marker "OK"; a text with an
\* error marker is not OK even with a success marker, and a null pointer or
\* a text without markers is not OK.
C21_ResponseOk ==
  pf.fn = "is_response_ok" /\ pf.done =>
    pf.out = (/\ ~pf.arg.null
              /\ ~HasErrorMarker(pf.arg.s)
              /\ HasSuccessMarker(pf.arg.s))

\* A text with both a success marker and an error marker was classified.
C21_Witness ==
  /\ pf.fn = "is_response_ok" /\ pf.done
  /\ pf.arg.s = <<"O", "K", "+", "E", "R", "R">>
  /\ pf.out = FALSE
\* parse_received_message has run on a well-formed notification.
ParsedWellFormed == pf.fn = "parse_received_message" /\ pf.done /\ pf.f.wf

\* C22: for a well-formed notification whose payload holds no comma,
\* parse_received_message yields the sender address of the line, the payload
\* of the line, and the absolute value of the signal strength.
C22_ParseFields ==
  ParsedWellFormed =>
    /\ pf.out.sender_address = pf.f.addr
    /\ pf.out.payload = pf.f.payload
    /\ pf.out.rssi = Abs(pf.f.rssi)
\* The indices of the commas of s, and the n-th of them.
Commas(s) == {i \in 1..Len(s) : s[i] = ","}
NthComma(s, n) ==
  CHOOSE i \in Commas(s) : Cardinality({j \in Commas(s) : j <= i}) = n
\* The number of bytes between the second comma of s and the next one.
PayloadSpan(s) == NthComma(s, 3) - NthComma(s, 2) - 1
Capped(n) ==
  IF n > LORA_MAX_MESSAGE_LENGTH - 1 THEN LORA_MAX_MESSAGE_LENGTH - 1 ELSE n

\* C23: for a well-formed notification, payload_length is the number of bytes
\* between the second comma and the next comma, capped at
\* LORA_MAX_MESSAGE_LENGTH - 1, whatever the declared length field says; the
\* payload copied is that many leading bytes of the payload field, never more
\* than LORA_MAX_MESSAGE_LENGTH - 1, and the terminator follows them at
\* payload[payload_length].
C23_PayloadLength ==
  ParsedWellFormed =>
    /\ pf.out.payload_length = Capped(PayloadSpan(pf.arg.s))
    /\ pf.out.payload_length <= LORA_MAX_MESSAGE_LENGTH - 1
    /\ Len(pf.out.payload) = pf.out.payload_length
    /\ pf.out.payload = SubSeq(pf.f.payload, 1, pf.out.payload_length)
    /\ pf.out.sender_address = pf.f.addr
    /\ pf.out.rssi = Abs(pf.f.rssi)

\* A payload longer than the cap, with a declared length of 3, was parsed.
C23_Witness ==
  /\ ParsedWellFormed
  /\ pf.f.len = 3
  /\ Len(pf.f.payload) > LORA_MAX_MESSAGE_LENGTH
  /\ pf.out.payload_length = LORA_MAX_MESSAGE_LENGTH - 1
\* C24: for a line that starts with the notification prefix and lacks an
\* expected delimiter, parse_received_message leaves the message entirely
\* zero: sender_address, payload_length and rssi 0 and the payload empty.
C24_MalformedZero ==
  pf.fn = "parse_received_message" /\ pf.done /\ ~pf.f.wf =>
    pf.out = ZeroMessage
OnWords == {<<"O", "N">>, <<"S", "T", "A", "R", "T">>, <<"M", "O", "V", "E">>, <<"1">>}
OffWords == {<<"O", "F", "F">>, <<"S", "T", "O", "P">>, <<"H", "A", "L", "T">>, <<"0">>}
\* s is w up to the case of its letters.
SameIgnoringCase(s, w) ==
  /\ Len(s) = Len(w)
  /\ \A i \in 1..Len(w) : s[i] = w[i] \/ s[i] = ToLower(w[i])
IsOneOf(a, words) == ~a.null /\ \E w \in words : SameIgnoringCase(a.s, w)

\* C26: lora_is_on_command returns true exactly for the strings equal,
\* ignoring letter case, to ON, START, MOVE or 1, and lora_is_off_command
\* exactly for OFF, STOP, HALT or 0; null, the empty string and strings with
\* extra characters are recognised by neither, and no string by both.
C26_CommandWords ==
  pf.fn = "lora_is_command" /\ pf.done =>
    /\ pf.out.on = IsOneOf(pf.arg, OnWords)
    /\ pf.out.off = IsOneOf(pf.arg, OffWords)
    /\ ~(pf.out.on /\ pf.out.off)
    /\ pf.arg.null \/ pf.arg.s = <<>> => ~pf.out.on /\ ~pf.out.off

\* "sTaRt" was recognised as an ON command and not as an OFF command.
C26_Witness ==
  /\ pf.fn = "lora_is_command" /\ pf.done
  /\ pf.arg.s = <<"s", "T", "a", "R", "t">>
  /\ pf.out.on /\ ~pf.out.off

(***************************************************************************)
(* The public operations of lora.c called one after the other on a ring    *)
(* buffer that holds what the module sent: lora_receive_message,           *)
(* lora_process_messages, lora_send_message and lora_init_custom, each a   *)
(* whole call.  lora_initialized is config->initialized; api records the   *)
(* last call: its arguments, the ring buffer it found, the status it       *)
(* returned, the commands it transmitted and the handler calls it made.    *)
(***************************************************************************)
\* The capacity of the ring buffer the operations are called on.
ApiRingSize == 24
\* The number of calls followed.
MaxApiCalls == 1
\* lora.h:80-88: lora_status_t
LoraStatus == {"OK", "ERROR", "TIMEOUT", "INVALID_PARAM", "NOT_INITIALIZED",
               "UART_ERROR"}
\* A line of the module carrying an error code.
LineErr == <<"+", "E", "R", "R", "=", "4">>
\* A line that is neither a notification nor an acknowledgment.
LineOther == <<"R", "E", "A", "D", "Y">>
\* A notification cut after its payload length.
LineCut == <<"+", "R", "C", "V", "=", "7", ",", "2">>
\* What the module may have sent, line by line.
ApiLines == {LineOn, LineOk, LineErr, LineOther, LineCut}
\* The bytes in the ring buffer before the first call: nothing, one line,
\* two lines, or a line followed by the start of another.
ApiContents ==
  {<<>>, <<"+", "R">>}
    \cup {l \o <<CR, LF>> : l \in ApiLines}
    \cup {l \o <<CR, LF>> \o m \o <<CR, LF>> :
            l \in ApiLines, m \in {LineOk, LineOther}}
    \cup {l \o <<CR, LF, "+", "O">> : l \in {LineOn, LineErr}}
\* What the module answers to a command: nothing within the timeout, or one
\* line.
ApiAnswers == {<<>>, LineOk, LineErr}
\* The network ids lora_init_custom is called with.
ApiNetworkIds == {0, 1, 2, 3, 15, 16, 17, 18, 19}
\* The lengths lora_send_message is called with.
ApiLengths == {0, 1, LORA_MAX_MESSAGE_LENGTH, LORA_MAX_MESSAGE_LENGTH + 1}

\* lora.c:511-539 with 541-556: send_at_command as one step, the answer of
\* the module stored by the interrupt before wait_for_response polls: the
\* ring buffer is cleared, the command transmitted, and the first line of the
\* answer, or the timeout, is the result.
SendAtCommandRun(b, answer, max_len) ==
  IF answer = <<>>
    THEN [status |-> "TIMEOUT", response |-> <<>>, buf |-> uart_buffer_init(b)]
    ELSE CHOOSE res \in
           {[status |-> IF r.ok THEN "OK" ELSE "TIMEOUT",
             response |-> r.line, buf |-> r.buf] :
              r \in {uart_buffer_get_line(
                       Preload(uart_buffer_init(b), answer \o <<CR, LF>>),
                       max_len)}} : TRUE

\* Variant: a line with "+OK" is reported as a message too.
lora_receive_message_ack(cfg_null, initialized, msg_null, b) ==
  IF cfg_null \/ ~initialized \/ msg_null
    THEN [status |-> "INVALID_PARAM", buf |-> b, message |-> ZeroMessage,
          line |-> <<>>]
    ELSE CHOOSE res \in
           {IF ~r.ok
              THEN [status |-> "ERROR", buf |-> r.buf,
                    message |-> ZeroMessage, line |-> <<>>]
              ELSE IF StartsWith(r.line, RCV_PREFIX) \/ StartsWith(r.line, LineOk)
                     THEN [status |-> "OK", buf |-> r.buf,
                           message |-> IF StartsWith(r.line, RCV_PREFIX)
                                         THEN parse_received_message(r.line)
                                         ELSE ZeroMessage,
                           line |-> r.line]
                     ELSE [status |-> "ERROR", buf |-> r.buf,
                           message |-> ZeroMessage, line |-> r.line] :
              r \in {uart_buffer_get_line(b, RESPONSE_BUFFER_SIZE)}} : TRUE

\* lora.c:261-309: lora_receive_message(config, message): the status, the
\* ring buffer afterwards, the message written (zero when none was) and the
\* line taken from the ring buffer (r is the result of the one call of
\* uart_buffer_get_line).
lora_receive_message(cfg_null, initialized, msg_null, b) ==
  IF cfg_null \/ ~initialized \/ msg_null
    THEN [status |-> "INVALID_PARAM", buf |-> b, message |-> ZeroMessage,
          line |-> <<>>]
    ELSE CHOOSE res \in
           {IF ~r.ok
              THEN [status |-> "ERROR", buf |-> r.buf,
                    message |-> ZeroMessage, line |-> <<>>]
              ELSE IF StartsWith(r.line, RCV_PREFIX)
                     THEN [status |-> "OK", buf |-> r.buf,
                           message |-> parse_received_message(r.line),
                           line |-> r.line]
                     ELSE [status |-> "ERROR", buf |-> r.buf,
                           message |-> ZeroMessage, line |-> r.line] :
              r \in {uart_buffer_get_line(b, RESPONSE_BUFFER_SIZE)}} : TRUE

\* lora.c:324-348: lora_process_messages(config): the result of the receive
\* and the number of calls of the registered handler.
lora_process_messages(cfg_null, initialized, handler, b) ==
  IF cfg_null \/ ~initialized
    THEN [status |-> "INVALID_PARAM", buf |-> b, message |-> ZeroMessage,
          line |-> <<>>, handled |-> 0]
    ELSE CHOOSE res \in
           {[status |-> r.status, buf |-> r.buf, message |-> r.message,
             line |-> r.line,
             handled |-> IF r.status = "OK" /\ handler THEN 1 ELSE 0] :
              r \in {lora_receive_message(FALSE, initialized, FALSE, b)}} : TRUE

\* lora.c:224-253: lora_send_message(config, address, message, length): the
\* status, the ring buffer afterwards, the commands transmitted and the
\* response of send_at_command.
lora_send_message(cfg_null, initialized, msg_null, length, b, answer) ==
  IF cfg_null \/ ~initialized \/ msg_null \/ length = 0
    THEN [status |-> "INVALID_PARAM", buf |-> b, tx |-> 0, response |-> <<>>,
          got |-> FALSE]
    ELSE IF length > LORA_MAX_MESSAGE_LENGTH
      THEN [status |-> "INVALID_PARAM", buf |-> b, tx |-> 0,
            response |-> <<>>, got |-> FALSE]
      ELSE CHOOSE res \in
             {[status |-> IF r.status = "OK" /\ is_response_ok(r.response)
                            THEN "OK" ELSE r.status,
               buf |-> r.buf, tx |-> 1, response |-> r.response,
               got |-> r.status = "OK"] :
                r \in {SendAtCommandRun(b, answer, SEND_RESPONSE_SIZE)}} : TRUE

\* lora.c:204-222: lora_test on a non-null config
lora_test(b, answer) ==
  CHOOSE res \in
    {[status |-> IF r.status = "OK" /\ is_response_ok(r.response)
                   THEN "OK" ELSE "ERROR",
      buf |-> r.buf] :
       r \in {SendAtCommandRun(b, answer, SEND_RESPONSE_SIZE)}} : TRUE

\* lora.c:151: the network ids the module accepts
ValidNetworkId(n) == n = 18 \/ (n >= 3 /\ n <= 15)

\* lora.c:77-203: lora_init_custom with a non-zero device address, the module
\* giving the same answer to every command: the status, config->initialized
\* and the ring buffer afterwards, and the commands transmitted (t is the
\* result of lora_test).
lora_init_custom(cfg_null, uart_null, network_id, initialized, b, answer) ==
  IF cfg_null \/ uart_null
    THEN [status |-> "INVALID_PARAM", initialized |-> initialized, buf |-> b,
          tx |-> 0]
    ELSE CHOOSE res \in
           {IF t.status # "OK"
              THEN [status |-> t.status, initialized |-> FALSE,
                    buf |-> t.buf, tx |-> 1]
              ELSE IF network_id # 0 /\ ~ValidNetworkId(network_id)
                THEN [status |-> "ERROR", initialized |-> FALSE,
                      buf |-> t.buf, tx |-> 1]
                ELSE [status |-> "OK", initialized |-> TRUE, buf |-> t.buf,
                      tx |-> IF network_id # 0 THEN 6 ELSE 5] :
              t \in {lora_test(uart_buffer_init(b), answer)}} : TRUE

\* lora.c:261-309: a call of lora_receive_message
ApiReceive ==
  /\ api.calls < MaxApiCalls
  /\ \E cfg_null \in BOOLEAN, msg_null \in BOOLEAN :
       \E r \in {lora_receive_message(cfg_null, lora_initialized, msg_null,
                                      uart_buffer)} :
         /\ uart_buffer' = r.buf
         /\ lora_initialized' = lora_initialized
         /\ api' = [op |-> "lora_receive_message", cfg_null |-> cfg_null,
                    arg_null |-> msg_null, length |-> 0, network_id |-> 0,
                    handler |-> FALSE, answer |-> <<>>,
                    was_init |-> lora_initialized, before |-> uart_buffer,
                    calls |-> api.calls + 1, prev |-> api.op,
                    after |-> r.buf,
                    status |-> r.status, handled |-> 0, tx |-> 0,
                    line |-> r.line, message |-> r.message, got |-> FALSE,
                    response |-> <<>>]

\* lora.c:324-348: a call of lora_process_messages, a handler registered or
\* not
ApiProcess ==
  /\ api.calls < MaxApiCalls
  /\ \E cfg_null \in BOOLEAN, handler \in BOOLEAN :
       \E r \in {lora_process_messages(cfg_null, lora_initialized, handler,
                                       uart_buffer)} :
         /\ uart_buffer' = r.buf
         /\ lora_initialized' = lora_initialized
         /\ api' = [op |-> "lora_process_messages", cfg_null |-> cfg_null,
                    arg_null |-> FALSE, length |-> 0, network_id |-> 0,
                    handler |-> handler, answer |-> <<>>,
                    was_init |-> lora_initialized, before |-> uart_buffer,
                    calls |-> api.calls + 1, prev |-> api.op,
                    after |-> r.buf,
                    status |-> r.status, handled |-> r.handled, tx |-> 0,
                    line |-> r.line, message |-> r.message, got |-> FALSE,
                    response |-> <<>>]

\* lora.c:224-253: a call of lora_send_message; the answer is recorded when
\* a command was transmitted
ApiSend ==
  /\ api.calls < MaxApiCalls
  /\ \E cfg_null \in BOOLEAN, msg_null \in BOOLEAN, length \in ApiLengths,
        answer \in ApiAnswers :
       \E r \in {lora_send_message(cfg_null, lora_initialized, msg_null,
                                   length, uart_buffer, answer)} :
         /\ uart_buffer' = r.buf
         /\ lora_initialized' = lora_initialized
         /\ api' = [op |-> "lora_send_message", cfg_null |-> cfg_null,
                    arg_null |-> msg_null, length |-> length,
                    network_id |-> 0, handler |-> FALSE,
                    answer |-> IF r.tx > 0 THEN answer ELSE <<>>,
                    was_init |-> lora_initialized, before |-> uart_buffer,
                    calls |-> api.calls + 1, prev |-> api.op,
                    after |-> r.buf,
                    status |-> r.status, handled |-> 0, tx |-> r.tx,
                    line |-> <<>>, message |-> ZeroMessage, got |-> r.got,
                    response |-> r.response]

\* lora.c:77-203: a call of lora_init_custom; the answer is recorded when a
\* command was transmitted
ApiInitCustom ==
  /\ api.calls < MaxApiCalls
  /\ \E cfg_null \in BOOLEAN, uart_null \in BOOLEAN,
        network_id \in ApiNetworkIds, answer \in ApiAnswers :
       \E r \in {lora_init_custom(cfg_null, uart_null, network_id,
                                  lora_initialized, uart_buffer, answer)} :
         /\ uart_buffer' = r.buf
         /\ lora_initialized' = r.initialized
         /\ api' = [op |-> "lora_init_custom", cfg_null |-> cfg_null,
                    arg_null |-> uart_null, length |-> 0,
                    network_id |-> network_id, handler |-> FALSE,
                    answer |-> IF r.tx > 0 THEN answer ELSE <<>>,
                    was_init |-> lora_initialized, before |-> uart_buffer,
                    calls |-> api.calls + 1, prev |-> api.op,
                    after |-> r.buf,
                    status |-> r.status, handled |-> 0, tx |-> r.tx,
                    line |-> <<>>, message |-> ZeroMessage, got |-> FALSE,
                    response |-> <<>>]

\* lora.c:255-259: a call of lora_broadcast_message, which is
\* lora_send_message to address 65535
ApiBroadcast ==
  /\ api.calls < MaxApiCalls
  /\ \E cfg_null \in BOOLEAN, msg_null \in BOOLEAN, length \in ApiLengths,
        answer \in ApiAnswers :
       \E r \in {lora_send_message(cfg_null, lora_initialized, msg_null,
                                   length, uart_buffer, answer)} :
         /\ uart_buffer' = r.buf
         /\ lora_initialized' = lora_initialized
         /\ api' = [op |-> "lora_broadcast_message", cfg_null |-> cfg_null,
                    arg_null |-> msg_null, length |-> length,
                    network_id |-> 0, handler |-> FALSE,
                    answer |-> IF r.tx > 0 THEN answer ELSE <<>>,
                    was_init |-> lora_initialized, before |-> uart_buffer,
                    calls |-> api.calls + 1, prev |-> api.op,
                    after |-> r.buf,
                    status |-> r.status, handled |-> 0, tx |-> r.tx,
                    line |-> <<>>, message |-> ZeroMessage, got |-> r.got,
                    response |-> r.response]

\* Variant: the reset leaves config->initialized as it was.
lora_reset_keeps(cfg_null, initialized, b, answer) ==
  IF cfg_null
    THEN [status |-> "INVALID_PARAM", initialized |-> initialized, buf |-> b,
          tx |-> 0]
    ELSE CHOOSE res \in
           {[status |-> IF r.status = "OK" /\ is_response_ok(r.response)
                          THEN "OK" ELSE "ERROR",
             initialized |-> initialized, buf |-> r.buf, tx |-> 1] :
              r \in {SendAtCommandRun(b, answer, SEND_RESPONSE_SIZE)}} : TRUE

\* lora.c:404-426: lora_reset(config): the status, config->initialized and
\* the ring buffer afterwards, and the commands transmitted.
lora_reset(cfg_null, initialized, b, answer) ==
  IF cfg_null
    THEN [status |-> "INVALID_PARAM", initialized |-> initialized, buf |-> b,
          tx |-> 0]
    ELSE CHOOSE res \in
           {IF r.status = "OK" /\ is_response_ok(r.response)
              THEN [status |-> "OK", initialized |-> FALSE, buf |-> r.buf,
                    tx |-> 1]
              ELSE [status |-> "ERROR", initialized |-> initialized,
                    buf |-> r.buf, tx |-> 1] :
              r \in {SendAtCommandRun(b, answer, SEND_RESPONSE_SIZE)}} : TRUE

\* lora.c:404-426: a call of lora_reset, before the calls that are followed
ApiReset ==
  /\ api.op = "none"
  /\ \E cfg_null \in BOOLEAN, answer \in ApiAnswers :
       \E r \in {lora_reset(cfg_null, lora_initialized, uart_buffer, answer)} :
         /\ uart_buffer' = r.buf
         /\ lora_initialized' = r.initialized
         /\ api' = [op |-> "lora_reset", cfg_null |-> cfg_null,
                    arg_null |-> FALSE, length |-> 0, network_id |-> 0,
                    handler |-> FALSE,
                    answer |-> IF r.tx > 0 THEN answer ELSE <<>>,
                    was_init |-> lora_initialized, before |-> uart_buffer,
                    calls |-> api.calls, prev |-> api.op, after |-> r.buf,
                    status |-> r.status, handled |-> 0, tx |-> r.tx,
                    line |-> <<>>, message |-> ZeroMessage, got |-> FALSE,
                    response |-> <<>>]

\* lora.c:710-735: the module sends another line between two calls, once the
\* lines it sent before were taken
ApiArrive ==
  /\ uart_buffer_available(uart_buffer) <= 1
  /\ \E l \in ApiLines :
       uart_buffer' = Preload(uart_buffer, l \o <<CR, LF>>)
  /\ UNCHANGED <<lora_initialized, api>>

apiRest == <<engVars, rb, gp, ln, pf, pc, stepper_active, response, msg, snd,
             wire, reply_due, sent, hbranch, hlog, hsnap, g_rx,
             g_off_pending, g_off_returned, at>>

ApiInit ==
  /\ EngInit
  /\ rb = RbStart
  /\ gp = GpIdle
  /\ ln = LnIdle
  /\ pf = PfIdle
  /\ api = ApiIdle
  /\ pc = "loop"
  /\ stepper_active = FALSE
  /\ response = <<>>
  /\ msg = ZeroMessage
  /\ snd = "none"
  /\ wire = <<>>
  /\ reply_due = FALSE
  /\ sent = 0
  /\ hbranch = "none"
  /\ hlog = <<>>
  /\ hsnap = NoSnap
  /\ g_rx = RxIdle
  /\ g_off_pending = FALSE
  /\ g_off_returned = FALSE
  /\ at = AtIdle
  /\ lora_initialized \in BOOLEAN
  /\ \E c \in ApiContents : uart_buffer = Preload(EmptyBuffer(ApiRingSize), c)

ApiNext ==
  \/ ApiReceive /\ UNCHANGED apiRest
  \/ ApiProcess /\ UNCHANGED apiRest
  \/ ApiSend /\ UNCHANGED apiRest
  \/ ApiBroadcast /\ UNCHANGED apiRest
  \/ ApiReset /\ UNCHANGED apiRest
  \/ ApiInitCustom /\ UNCHANGED apiRest
  \/ ApiArrive /\ UNCHANGED apiRest

SpecApi == ApiInit /\ [][ApiNext]_vars

\* api holds a finished call of lora_receive_message or lora_process_messages
\* that passed the argument checks.
ReceiveRan ==
  /\ api.op \in {"lora_receive_message", "lora_process_messages"}
  /\ ~api.cfg_null /\ ~api.arg_null /\ api.was_init
\* The lines the ring buffer b holds, the unterminated rest included.
HeldLines(b) == LinesOf(Window(b))
\* The call took nothing from the lines of the ring buffer, or the first.
TookAtMostOne ==
  \/ HeldLines(api.after) = HeldLines(api.before)
  \/ /\ HeldLines(api.before) # <<>>
     /\ HeldLines(api.after) = Tail(HeldLines(api.before))
     /\ api.line = Head(HeldLines(api.before))

\* C25: a call of lora_receive_message takes at most one line from the ring
\* buffer and returns LORA_STATUS_OK only if that line begins with "+RCV=";
\* a line beginning with "+OK" or "+ERR", any other line and no line at all
\* give a status other than OK, in one pass over the buffer; and
\* lora_process_messages calls the registered handler exactly once when the
\* status is OK and never otherwise.
C25_ReceiveOneLine ==
  ReceiveRan =>
    /\ TookAtMostOne
    /\ api.status = "OK" <=>
         (api.line # <<>> /\ StartsWith(api.line, RCV_PREFIX))
    /\ api.status \in LoraStatus
    /\ api.handled = IF api.op = "lora_process_messages" /\ api.handler
                          /\ api.status = "OK"
                       THEN 1 ELSE 0

\* lora_process_messages found two lines, took the notification, called the
\* handler once and left the acknowledgment in the ring buffer.
C25_Witness ==
  /\ ReceiveRan /\ api.op = "lora_process_messages" /\ api.handler
  /\ HeldLines(api.before) = <<LineOn, LineOk>>
  /\ api.status = "OK" /\ api.handled = 1
  /\ HeldLines(api.after) = <<LineOk>>
\* lora_receive_message found an acknowledgment and returned an error.
C25_WitnessAck ==
  /\ ReceiveRan /\ api.op = "lora_receive_message"
  /\ api.line = LineOk /\ api.status = "ERROR"

\* api holds a finished message operation whose arguments are valid and
\* whose config was not initialised.
BeforeSetup ==
  /\ api.op \in {"lora_send_message", "lora_receive_message",
                 "lora_process_messages"}
  /\ ~api.cfg_null /\ ~api.arg_null
  /\ api.op = "lora_send_message" =>
       api.length >= 1 /\ api.length <= LORA_MAX_MESSAGE_LENGTH
  /\ ~api.was_init

\* C27: lora_send_message, lora_receive_message and lora_process_messages
\* called with valid arguments while config->initialized is false return
\* LORA_STATUS_NOT_INITIALIZED.
C27_NotInitialized ==
  BeforeSetup => api.status = "NOT_INITIALIZED"

\* The network ids that are no error: 0 (keep the module's), 3..15 and 18.
NetworkIdInRange(n) == n \in ({0} \cup (3..15) \cup {18})
\* api holds a finished call one of whose arguments is null, of length zero
\* or out of range.
InvalidArgument ==
  /\ api.op # "none"
  /\ \/ api.cfg_null
     \/ api.arg_null
     \/ /\ api.op = "lora_send_message"
        /\ api.length = 0 \/ api.length > LORA_MAX_MESSAGE_LENGTH
     \/ /\ api.op = "lora_init_custom"
        /\ ~NetworkIdInRange(api.network_id)

\* C28: a public operation given a null config or message, a length of 0 or
\* above LORA_MAX_MESSAGE_LENGTH, or a network id outside {0, 3..15, 18}
\* returns LORA_STATUS_INVALID_PARAM before any I/O: it transmits no command
\* and leaves the ring buffer as it found it.
C28_InvalidParamFirst ==
  InvalidArgument =>
    /\ api.status = "INVALID_PARAM"
    /\ api.tx = 0
    /\ api.after = api.before

\* api holds a finished call of lora_send_message that transmitted its
\* command.
SendRan == api.op = "lora_send_message" /\ api.tx > 0

\* C29: lora_send_message returns LORA_STATUS_OK only if a response line was
\* received and is_response_ok classifies it as OK; after a timeout, or a
\* response with an error marker, the status returned is not OK.
C29_SendOkOnlyIfAck ==
  SendRan =>
    /\ api.status = "OK" => api.got /\ is_response_ok(api.response)
    /\ ~api.got \/ HasErrorMarker(api.response) => api.status # "OK"

\* Motor k is an entry of the array of the stepping call in progress.
InCall(k) == \E i \in DOMAIN rot.arr : rot.arr[i] = k
\* The step ends the call of a stepping function that began no loop.
ReturnsAtOnce ==
  /\ g_calls' = g_calls + 1
  /\ g_lastop' \in {"move_steps", "rotate_degrees", "rotate_multiple"}
  /\ rot'.pc = "idle"

\* C30: stepping a null or disabled motor is a silent no-op.  A call of
\* stepper_move_steps or stepper_rotate_degrees begins its loop only on an
\* enabled motor, and a call that returns at once changes no motor; during
\* a stepping call a disabled motor keeps its current_step, its enabled
\* flag and its four outputs, and the motors outside the array (NULL entries
\* name none) are left alone, while at each step of the loop every enabled
\* motor of the array moves one phase in the call's direction, its outputs
\* set to the new phase.
C30_DisabledNoOp ==
  [][/\ ReturnsAtOnce => motors' = motors
     /\ rot'.pc # "idle" /\ rot'.kind = "single" =>
          rot'.arr[1] # NULL /\ motors[rot'.arr[1]].enabled
     /\ \A k \in Motors :
          /\ RotRunning /\ (~motors[k].enabled \/ ~InCall(k)) =>
               motors'[k] = motors[k]
          /\ rot.pc = "advance" /\ rot'.pc = "delay" /\ motors[k].enabled
               /\ InCall(k) =>
               /\ motors'[k].current_step =
                    NextPhase(motors[k].current_step, rot.dir)
               /\ motors'[k].pins = step_sequence[motors'[k].current_step]
               /\ motors'[k].enabled]_vars

\* A call of stepper_rotate_multiple_degrees on a disabled and an enabled
\* motor has stepped: the enabled motor left phase 0, the disabled one kept
\* its phase and its outputs low.
C30_Witness ==
  /\ rot.kind = "multi" /\ rot.pc = "delay"
  /\ rot.arr = <<1, 2>>
  /\ ~motors[1].enabled /\ motors[1].current_step = 0 /\ motors[1].pins = AllLow
  /\ motors[2].enabled /\ motors[2].current_step # 0

\* The steps of the call in progress whose phase update is done.
StepsDone == rot.step + (IF rot.pc \in {"delay", "sleep", "post"} THEN 1 ELSE 0)
\* Phase p moved n steps in direction dir.
Shifted(p, dir, n) == IF dir = STEPPER_CW THEN (p + n) % 8 ELSE (p + 8 * n - n) % 8
\* The call in progress has run all its steps and is about to return.
RotComplete == rot.pc = "check" /\ rot.step = rot.steps

\* C31: during a stepper_rotate_multiple_degrees call every enabled motor of
\* the array has advanced by the number of steps done so far, the same for
\* all, in the call's direction, and its outputs are the pattern of its
\* phase; so when a call of k steps returns uninterrupted each enabled motor
\* is at (initial + k) mod 8 for clockwise and (initial - k) mod 8 for
\* counter-clockwise.
C31_LockStep ==
  rot.pc # "idle" /\ rot.kind = "multi" =>
    /\ StepsDone <= rot.steps
    /\ \A k \in Motors :
         motors[k].enabled /\ InCall(k) =>
           /\ motors[k].current_step = Shifted(rot.start[k], rot.dir, StepsDone)
           /\ motors[k].pins = step_sequence[motors[k].current_step]
    /\ RotComplete => StepsDone = rot.steps

\* A counter-clockwise call on both motors, started at different phases, has
\* run all its steps: motor 2 wrapped below 0, motor 1 moved by as much.
C31_Witness ==
  /\ rot.kind = "multi" /\ RotComplete /\ rot.steps > 0
  /\ rot.dir = STEPPER_CCW /\ rot.arr = <<1, 2>>
  /\ motors[1].enabled /\ motors[2].enabled
  /\ rot.start[1] # rot.start[2]
  /\ motors[2].current_step > rot.start[2]

\* The integer nearest to num / den (halves upward), for num >= 0, den > 0.
RoundDiv(num, den) == (2 * num + den) \div (2 * den)

\* C32: the step count of stepper_rotate_degrees and
\* stepper_rotate_multiple_degrees for an angle is the integer nearest to
\* degrees / 360 * STEPS_PER_REVOLUTION.
C32_StepsRounded ==
  pf.fn = "degrees_to_steps" /\ pf.done =>
    pf.out = RoundDiv(pf.arg * STEPS_PER_REVOLUTION, 8 * 360)

\* The phase one step from p in direction dir, the table being a cycle.
Around(p, dir) ==
  IF dir = STEPPER_CW
    THEN (IF p = 7 THEN 0 ELSE p + 1)
    ELSE (IF p = 0 THEN 7 ELSE p - 1)

\* C33: after stepper_init every motor's current_step is in 0..7, whatever
\* sequence of moves, rotations in either direction, enables, disables,
\* emergency stops and cancellations runs; a phase changes only to the next
\* of the cycle in the call's direction, and a step of an enabled motor does
\* take it there: from 7 to 0 clockwise and from 0 to 7 counter-clockwise.
C33_PhaseInRange ==
  [][\A k \in Motors :
       /\ motors[k].current_step \in 0..7
       /\ motors'[k].current_step \in 0..7
       /\ \/ motors'[k].current_step # motors[k].current_step
          \/ (rot.pc = "advance" /\ rot'.pc = "delay" /\ motors[k].enabled
                /\ InCall(k))
          => motors'[k].current_step = Around(motors[k].current_step, rot.dir)]_vars

\* A clockwise call has stepped a motor from phase 7 to phase 0.
C33_Witness ==
  /\ rot.pc = "delay" /\ rot.step = 0 /\ rot.dir = STEPPER_CW
  /\ \E k \in Motors :
       InCall(k) /\ rot.start[k] = 7 /\ motors[k].current_step = 0
\* A counter-clockwise call has stepped a motor from phase 0 to phase 7.
C33_WitnessCCW ==
  /\ rot.pc = "delay" /\ rot.step = 0 /\ rot.dir = STEPPER_CCW
  /\ \E k \in Motors :
       InCall(k) /\ rot.start[k] = 0 /\ motors[k].current_step = 7

\* The operations that need an initialised module.
MessageOps == {"lora_send_message", "lora_broadcast_message",
               "lora_receive_message", "lora_process_messages"}

\* C34: while config->initialized is false, lora_send_message,
\* lora_broadcast_message, lora_receive_message and lora_process_messages
\* return an error, transmit nothing, leave the ring buffer as it is and do
\* not call the message handler; and a lora_reset that returns OK leaves
\* initialized false, so that the operation called next is refused.
C34_GatedByInitialized ==
  /\ api.op \in MessageOps /\ ~api.was_init =>
       /\ api.status # "OK"
       /\ api.tx = 0
       /\ api.after = api.before
       /\ api.handled = 0
  /\ api.op = "lora_reset" /\ api.status = "OK" => ~lora_initialized
  /\ api.op \in MessageOps /\ api.prev = "lora_reset" /\ ~api.was_init =>
       api.status = "INVALID_PARAM"

\* The config was initialised, lora_reset returned OK, and the
\* lora_process_messages call that followed, with a handler registered and a
\* notification waiting, was refused.
C34_Witness ==
  /\ api.op = "lora_process_messages" /\ api.prev = "lora_reset"
  /\ ~api.cfg_null /\ api.handler /\ ~api.was_init
  /\ HeldLines(api.before) = <<LineOn>>
  /\ api.status = "INVALID_PARAM" /\ api.handled = 0

\* C35: in every reachable state of the receiver each motor's four outputs
\* are all 0 or the sequence-table pattern of its current_step, and a motor
\* whose enabled flag is false has all four outputs at 0.
C35_OutputsConsistent ==
  \A k \in Motors :
    /\ motors[k].pins \in {AllLow, step_sequence[motors[k].current_step]}
    /\ ~motors[k].enabled => motors[k].pins = AllLow

\* After an emergency stop the ON handler has set enabled again: a motor is
\* enabled with all its outputs at 0, which is not the pattern of its phase.
C35_Witness ==
  /\ hbranch = "on"
  /\ \E k \in Motors : motors[k].enabled /\ motors[k].pins = AllLow

\* ---------------------------------------------------------------------------
\* C36  At every iteration boundary of the receiver main loop a set
\* cancellation flag implies that stepper_active is false and that every
\* motor is disabled with all four outputs 0; so the flag and stepper_active
\* are never both true there, and no control_steppers call is started while
\* the flag is set.
\* ---------------------------------------------------------------------------
AtBoundary == pc = "loop"

ControlStarts == ~RotRunning /\ RotRunning'

C36_FlagMeansStopped ==
  /\ [](AtBoundary /\ stepper_interrupt_flag => ~stepper_active /\ AllStopped)
  /\ [][ControlStarts => ~stepper_interrupt_flag]_vars

\* an OFF that followed a completed ON: the motors had moved, the loop is
\* back at its boundary with the flag set
C36_Witness ==
  /\ AtBoundary
  /\ stepper_interrupt_flag
  /\ ~stepper_active
  /\ AllStopped
  /\ g_off_returned
  /\ \E k \in Motors : motors[k].current_step # 0

\* ---------------------------------------------------------------------------
\* C37  In the receiver the cancellation flag never changes value while
\* stepper_rotate_multiple_degrees is executing: a run of the interrupt
\* handler changes nothing of the stepping state, the flag is written only
\* by the message handler between calls, every control_steppers call
\* returns from the loop head with all of its steps done, and the OFF branch
\* runs only while no stepping call is in progress.
\* ---------------------------------------------------------------------------
CallReturns == RotRunning /\ ~RotRunning'

InOffBranch == pc \in {"off_set", "off_stop"}

PollRingSize == 4
\* The destination sizes polled with: the smallest that holds a byte, a
\* small one, and one larger than every stream.
PollMaxLens == {2} \cup LineMaxLens
PollOffsets == {0, PollRingSize - 1}

\* lora.c:710-735 with 640-653: the interrupt handler stores one more byte of
\* the stream; the buffer has room for it
PollPut ==
  /\ Len(ln.input) < MaxInput
  /\ PutAccepts(uart_buffer)
  /\ \E c \in LineBytes :
       /\ uart_buffer' = uart_buffer_put(uart_buffer, c)
       /\ ln' = [ln EXCEPT !.input = Append(ln.input, c)]

PollInit ==
  /\ EngInit /\ RecvAtRest
  /\ rb = RbStart
  /\ gp = GpIdle
  /\ pf = PfIdle
  /\ api = ApiIdle
  /\ \E max_len \in PollMaxLens, off \in PollOffsets :
       /\ ln = [LnIdle EXCEPT !.max_len = max_len]
       /\ uart_buffer =
            [EmptyBuffer(PollRingSize) EXCEPT !.head = off, !.tail = off]

PollNext ==
  \/ PollPut /\ UNCHANGED lineRest
  \/ LineGet /\ UNCHANGED lineRest

SpecPoll == PollInit /\ [][PollNext]_vars

\* The bytes of the stream the calls have taken out of the buffer.
Consumed == SubSeq(ln.input, 1, ln.pos)

\* ---------------------------------------------------------------------------
\* C38  For every stream put into the ring buffer without overflow or clear
\* and every interleaving of the puts with uart_buffer_get_line polls
\* (max_len at least 2), the lines returned so far, one after the other, are
\* the consumed part of the stream with every CR and LF removed: no byte
\* other than a terminator is dropped, duplicated or reordered; and what is
\* not consumed is still in the buffer.
\* ---------------------------------------------------------------------------
C38_LinesAreStream ==
  /\ ~uart_buffer.overflow
  /\ ln.max_len >= 2
  /\ ln.pos <= Len(ln.input)
  /\ Concat(ln.lines) = Strip(Consumed)
  /\ uart_buffer_available(uart_buffer) = Len(ln.input) - ln.pos

\* one line of the stream came back in two results, cut by the size of the
\* destination, and a third result followed a terminator
C38_Witness ==
  /\ ln.max_len = SmallLen
  /\ Len(ln.lines) = 3
  /\ Len(ln.lines[1]) = SmallLen - 1
  /\ ln.pos = MaxInput
  /\ NotTerm(ln.input[SmallLen])
  /\ \E i \in 1..MaxInput : IsTerm(ln.input[i])

\* a line was returned in two results because the poll came before the rest
\* of it was put
C38_WitnessSplit ==
  /\ ln.max_len = MaxInput + 2
  /\ Len(ln.lines) = 2
  /\ \A i \in 1..Len(ln.input) : NotTerm(ln.input[i])
  /\ ln.pos = Len(ln.input)


(***************************************************************************)
(* The setup functions command by command (SpecSetup): lora_init_custom    *)
(* and lora_configure, each AT command one step with its own answer from   *)
(* the module.  api.config are the five radio fields of the configuration  *)
(* structure and lora_initialized its initialized field; api.before and    *)
(* api.was_init are their values when the call began, api.args the values  *)
(* lora_configure was passed, api.answers the responses send_at_command    *)
(* gave to the commands of the call so far.                                *)
(***************************************************************************)
\* Calls of the two functions in one behaviour.
MaxSetupCalls == 2

\* lora.h:108, 125, 135: the defaults lora_init_custom stores
LORA_SF_9 == 9
LORA_BW_125 == 7
LORA_CR_4_5 == 1

\* The radio fields of a zeroed structure.
ZeroConfig ==
  [frequency |-> 0, power |-> 0, sf |-> 0, bandwidth |-> 0, coding_rate |-> 0]

\* The values the functions are called with.
SetupArgs ==
  {[frequency |-> 915000000, power |-> 15, sf |-> LORA_SF_9,
    bandwidth |-> LORA_BW_125, coding_rate |-> LORA_CR_4_5],
   [frequency |-> 868000000, power |-> 10, sf |-> 7, bandwidth |-> 9,
    coding_rate |-> 2]}
SetupNetworkIds == {0, 5, 16}
SetupAddresses == {0, 1}
\* What send_at_command is answered: nothing within the timeout, or a line.
SetupAnswers == {<<>>, LineOk, LineErr, LineOther}

SetupIdle ==
  [op |-> "none", pc |-> "idle", calls |-> 0, status |-> "none",
   network_id |-> 0, device_address |-> 0, args |-> ZeroConfig,
   config |-> ZeroConfig, before |-> ZeroConfig, was_init |-> FALSE,
   answers |-> <<>>]

\* lora.c:511-539 and the test that follows every command of the setup
\* (lora.c:214, 161, 177, 366, 375, 385): the command got a line in time and
\* is_response_ok accepts it
CommandOk(b, answer) ==
  CHOOSE res \in
    {[ok |-> r.status = "OK" /\ is_response_ok(r.response),
      response |-> r.response, buf |-> r.buf] :
       r \in {SendAtCommandRun(b, answer, SEND_RESPONSE_SIZE)}} : TRUE

\* The call returns status.
SetupReturn(a, status) == [a EXCEPT !.pc = "idle", !.status = status]

\* One command of a setup function at position here: on success the
\* function goes on at position next, otherwise it returns LORA_STATUS_ERROR.
SetupCommand(here, next) ==
  /\ api.pc = here
  /\ \E answer \in SetupAnswers :
       \E r \in {CommandOk(uart_buffer, answer)} :
         /\ uart_buffer' = r.buf
         /\ api' = IF r.ok
                     THEN [api EXCEPT !.pc = next,
                                      !.answers = Append(api.answers, r.response)]
                     ELSE [SetupReturn(api, "ERROR") EXCEPT
                             !.answers = Append(api.answers, r.response)]
  /\ UNCHANGED lora_initialized

\* lora.c:77-124: lora_init_custom is called; after the null checks it fills
\* the structure and clears the ring buffer
SetupInitCall ==
  /\ api.pc = "idle" /\ api.calls < MaxSetupCalls
  /\ \E null \in {"none", "config", "uart"}, network_id \in SetupNetworkIds,
        device_address \in SetupAddresses, a \in SetupArgs :
       IF null # "none"
         THEN /\ api' = [api EXCEPT !.op = "lora_init_custom", !.pc = "idle",
                                    !.calls = api.calls + 1,
                                    !.status = "INVALID_PARAM",
                                    !.network_id = network_id,
                                    !.device_address = device_address,
                                    !.args = a, !.before = api.config,
                                    !.was_init = lora_initialized,
                                    !.answers = <<>>]
              /\ UNCHANGED <<uart_buffer, lora_initialized>>
         ELSE /\ api' = [api EXCEPT !.op = "lora_init_custom", !.pc = "test",
                                    !.calls = api.calls + 1,
                                    !.status = "none",
                                    !.network_id = network_id,
                                    !.device_address = device_address,
                                    !.args = [a EXCEPT !.sf = LORA_SF_9,
                                                       !.bandwidth = LORA_BW_125,
                                                       !.coding_rate = LORA_CR_4_5],
                                    !.config = [a EXCEPT !.sf = LORA_SF_9,
                                                         !.bandwidth = LORA_BW_125,
                                                         !.coding_rate = LORA_CR_4_5],
                                    !.before = api.config,
                                    !.was_init = lora_initialized,
                                    !.answers = <<>>]
              /\ lora_initialized' = FALSE
              /\ uart_buffer' = uart_buffer_init(uart_buffer)

\* lora.c:134-141 with 204-222: lora_test
SetupTest == SetupCommand("test", "networkid")

\* lora.c:145-167: the network id, when one is given
SetupNetworkId ==
  /\ api.pc = "networkid"
  /\ IF api.network_id = 0
       THEN /\ api' = [api EXCEPT !.pc = "address"]
            /\ UNCHANGED <<uart_buffer, lora_initialized>>
       ELSE IF ~ValidNetworkId(api.network_id)
         THEN /\ api' = SetupReturn(api, "ERROR")
              /\ UNCHANGED <<uart_buffer, lora_initialized>>
         ELSE SetupCommand("networkid", "address")

\* lora.c:169-182: the device address, when one is given; lora_configure is
\* called next (lora.c:187)
SetupAddress ==
  /\ api.pc = "address"
  /\ IF api.device_address = 0
       THEN /\ api' = [api EXCEPT !.pc = "band"]
            /\ UNCHANGED <<uart_buffer, lora_initialized>>
       ELSE SetupCommand("address", "band")

\* lora.c:350-361: lora_configure is called by the application
SetupConfigureCall ==
  /\ api.pc = "idle" /\ api.calls < MaxSetupCalls
  /\ \E cfg_null \in BOOLEAN, a \in SetupArgs :
       api' = [api EXCEPT !.op = "lora_configure",
                          !.pc = IF cfg_null THEN "idle" ELSE "band",
                          !.calls = api.calls + 1,
                          !.status = IF cfg_null THEN "INVALID_PARAM" ELSE "none",
                          !.network_id = 0, !.device_address = 0,
                          !.args = a, !.before = api.config,
                          !.was_init = lora_initialized,
                          !.answers = <<>>]
  /\ UNCHANGED <<uart_buffer, lora_initialized>>

\* Variant: the frequency is stored as soon as the band command is sent.
SetupBand_early ==
  /\ api.pc = "band"
  /\ \E answer \in SetupAnswers :
       \E r \in {CommandOk(uart_buffer, answer)} :
         /\ uart_buffer' = r.buf
         /\ api' = IF r.ok
                     THEN [api EXCEPT !.pc = "crfop",
                                      !.config.frequency = api.args.frequency,
                                      !.answers = Append(api.answers, r.response)]
                     ELSE [SetupReturn(api, "ERROR") EXCEPT
                             !.config.frequency = api.args.frequency,
                             !.answers = Append(api.answers, r.response)]
  /\ UNCHANGED lora_initialized

\* lora.c:363-370: AT+BAND
SetupBand == SetupCommand("band", "crfop")

\* lora.c:372-380: AT+CRFOP
SetupPower == SetupCommand("crfop", "parameter")

\* lora.c:382-390: AT+PARAMETER
SetupParameter == SetupCommand("parameter", "update")

\* lora.c:391-401: the fields are stored and lora_configure returns; in
\* lora_init_custom, lora.c:188-201: initialized is set
SetupUpdate ==
  /\ api.pc = "update"
  /\ api' = [SetupReturn(api, "OK") EXCEPT !.config = api.args]
  /\ lora_initialized' =
       IF api.op = "lora_init_custom" THEN TRUE ELSE lora_initialized
  /\ UNCHANGED uart_buffer

SetupInit ==
  /\ EngInit
  /\ rb = RbStart
  /\ gp = GpIdle
  /\ ln = LnIdle
  /\ pf = PfIdle
  /\ api = SetupIdle
  /\ pc = "loop"
  /\ stepper_active = FALSE
  /\ response = <<>>
  /\ msg = ZeroMessage
  /\ snd = "none"
  /\ wire = <<>>
  /\ reply_due = FALSE
  /\ sent = 0
  /\ hbranch = "none"
  /\ hlog = <<>>
  /\ hsnap = NoSnap
  /\ g_rx = RxIdle
  /\ g_off_pending = FALSE
  /\ g_off_returned = FALSE
  /\ at = AtIdle
  /\ lora_initialized = FALSE
  /\ uart_buffer = EmptyBuffer(ApiRingSize)

SetupNext ==
  \/ SetupInitCall /\ UNCHANGED apiRest
  \/ SetupTest /\ UNCHANGED apiRest
  \/ SetupNetworkId /\ UNCHANGED apiRest
  \/ SetupAddress /\ UNCHANGED apiRest
  \/ SetupConfigureCall /\ UNCHANGED apiRest
  \/ SetupBand /\ UNCHANGED apiRest
  \/ SetupPower /\ UNCHANGED apiRest
  \/ SetupParameter /\ UNCHANGED apiRest
  \/ SetupUpdate /\ UNCHANGED apiRest

SpecSetup == SetupInit /\ [][SetupNext]_vars

\* The call in api has returned.
SetupReturned == api.op # "none" /\ api.pc = "idle"
\* The commands lora_init_custom sends before lora_configure.
InitCommands ==
  1 + (IF api.network_id # 0 THEN 1 ELSE 0)
    + (IF api.device_address # 0 THEN 1 ELSE 0)
\* The last n commands of the call were all answered with a line
\* is_response_ok accepts, and the call sent no other command.
AllAnswered(n) ==
  /\ Len(api.answers) = n
  /\ \A i \in 1..n : is_response_ok(api.answers[i])

\* ---------------------------------------------------------------------------
\* C39  lora_configure is all-or-nothing on the stored configuration: when
\* one of its three commands (band, power, parameters) times out or gets a
\* response that is not OK it returns LORA_STATUS_ERROR with frequency,
\* power, sf, bandwidth and coding_rate as they were when it was called; the
\* fields take the values passed only when all three commands were answered
\* OK, and then it returns LORA_STATUS_OK; and the step of lora_init_custom
\* that sets initialized follows an accepted answer to the AT test and to
\* every configuration command it sent.
\* ---------------------------------------------------------------------------
C39_ConfigureAllOrNothing ==
  /\ [](api.op = "lora_configure" =>
          /\ api.pc # "idle" => api.config = api.before
          /\ SetupReturned =>
               IF api.status = "OK"
                 THEN AllAnswered(3) /\ api.config = api.args
                 ELSE /\ api.config = api.before
                      /\ api.status \in {"ERROR", "INVALID_PARAM"}
                      /\ api.status = "ERROR" =>
                            /\ api.answers # <<>>
                            /\ Len(api.answers) <= 3
                            /\ ~is_response_ok(api.answers[Len(api.answers)]))
  /\ [][api.op = "lora_configure" /\ api.pc = "update"
          => AllAnswered(3) /\ api'.status = "OK"]_vars
  /\ [][~lora_initialized /\ lora_initialized'
          => /\ api.op = "lora_init_custom"
             /\ AllAnswered(InitCommands + 3)
             /\ api'.status = "OK"]_vars
  /\ [](/\ lora_initialized
        /\ api.op = "lora_init_custom"
        /\ api.status # "INVALID_PARAM"
        => SetupReturned /\ api.status = "OK")

\* lora_configure returned an error after its first two commands were
\* answered OK, on a configuration that a successful lora_init_custom had
\* filled with other values
C39_Witness ==
  /\ api.op = "lora_configure" /\ SetupReturned
  /\ api.status = "ERROR"
  /\ Len(api.answers) = 3
  /\ lora_initialized
  /\ api.config = api.before
  /\ api.args.frequency # api.config.frequency
  /\ api.args.sf # api.config.sf

\* lora_init_custom returned OK with initialized set, after the test, the
\* network id, the address and the three configuration commands
C39_WitnessInit ==
  /\ api.op = "lora_init_custom" /\ SetupReturned
  /\ api.status = "OK"
  /\ lora_initialized
  /\ Len(api.answers) = 6


\* ---------------------------------------------------------------------------
\* C40  When lora_init_custom failed in the receiver (lora_initialized is
\* false), the main loop never calls lora_process_messages or
\* control_steppers: the loop stays at the top of its iteration, nothing is
\* taken out of the ring buffer, no stepping call is in progress, the
\* message handler is never invoked, the motors stay as stepper_init left
\* them (current_step never changes), and stepper_active stays false.
\* ---------------------------------------------------------------------------
C40_SafetyMode ==
  /\ [](~lora_initialized =>
          /\ pc = "loop"
          /\ ~stepper_active
          /\ ~stepper_interrupt_flag
          /\ ~RotRunning
          /\ hbranch = "none" /\ hlog = <<>>
          /\ snd = "none"
          /\ uart_buffer.tail = 0
          /\ motors = [k \in Motors |-> stepper_init(STEPPER_DELAY_MS)])
  /\ [][~lora_initialized =>
          /\ \A k \in Motors : motors'[k].current_step = motors[k].current_step
          /\ stepper_active' = stepper_active
          /\ lora_initialized' = lora_initialized]_vars

\* in safety mode a whole ON notification was stored in the ring buffer by
\* the interrupt handler and a second one followed
C40_Witness ==
  /\ ~lora_initialized
  /\ pc = "loop"
  /\ sent = MaxMsgs
  /\ wire = <<>>
  /\ uart_buffer_available(uart_buffer) > Len(LineOn)
  /\ \A i \in 1..Len(LineOn) : uart_buffer.buffer[i - 1] = LineOn[i]
  /\ ~stepper_active

====
